---- MODULE Spec2Model ----
(***************************************************************************)
(* Schema import / normalization subsystem of persona_platform.schemas:    *)
(* the normalized model (FieldSchema, SchemaDefinition), the canonical     *)
(* parser, the legacy format parsers and the SchemaParser dispatcher.      *)
(*                                                                         *)
(* Conventions of the model                                                *)
(*   - Python None is the empty tuple <<>>, a present value v is <<v>>.    *)
(*   - A Python dict (insertion ordered) is a sequence of [key, val]       *)
(*     records with distinct keys.                                         *)
(*   - A raised exception is a record [ok |-> FALSE, err |-> kind, ...].   *)
(*   - Each subsystem has its own specification over the same variables.   *)
(***************************************************************************)
EXTENDS Integers, Sequences, FiniteSets, TLC

VARIABLES
    source,   \* the input of the run: a file, a document or a model object
    parser,   \* the live parser instance (its registries), when one exists
    schema,   \* the live SchemaDefinition object the caller holds
    result,   \* what the last operation returned or raised
    first,    \* the first result of each distinct call, per call signature
    now,      \* the wall clock read by datetime.now()
    calls     \* the call stack of a parse in progress (innermost call last)

vars == <<source, parser, schema, result, first, now, calls>>

(***************************************************************************)
(* Generic helpers                                                         *)
(***************************************************************************)
None == <<>>

Some(v) == <<v>>

IsNone(o) == o = <<>>

EmptyDoc == [k \in {} |-> TRUE]

NoResult == [op |-> "none"]

Range(s) == {s[i] : i \in DOMAIN s}

Keys(d) == [i \in DOMAIN d |-> d[i].key]

HasKey(d, k) == \E i \in DOMAIN d : d[i].key = k

Lookup(d, k) == d[CHOOSE i \in DOMAIN d : d[i].key = k].val

\* dict[k] = v on an insertion-ordered dict: an existing key keeps its place.
DictSet(d, k, v) ==
    IF HasKey(d, k)
    THEN [i \in DOMAIN d |-> IF d[i].key = k THEN [key |-> k, val |-> v] ELSE d[i]]
    ELSE Append(d, [key |-> k, val |-> v])

RECURSIVE DictFromPairs(_)
DictFromPairs(pairs) ==
    IF pairs = <<>> THEN <<>>
    ELSE LET n == Len(pairs)
         IN DictSet(DictFromPairs(SubSeq(pairs, 1, n - 1)), pairs[n].key, pairs[n].val)

RECURSIVE SeqsUpTo(_, _)
SeqsUpTo(S, n) ==
    IF n = 0 THEN {<<>>}
    ELSE LET shorter == SeqsUpTo(S, n - 1)
         IN shorter \cup {Append(s, x) : s \in {t \in shorter : Len(t) = n - 1}, x \in S}

(***************************************************************************)
(* base.py: FieldSchema and SchemaDefinition                               *)
(***************************************************************************)
\* FieldSchema(name=..., type=...) with every other attribute at its default.
FieldSchema(name, type) ==
    [name |-> name, type |-> type, format |-> None, description |-> None,
     required |-> FALSE, nullable |-> TRUE, enum |-> None,
     min_length |-> None, max_length |-> None, pattern |-> None,
     minimum |-> None, maximum |-> None,
     exclusive_minimum |-> FALSE, exclusive_maximum |-> FALSE,
     items |-> None, min_items |-> None, max_items |-> None,
     unique_items |-> FALSE, properties |-> None,
     default |-> None, example |-> None]

\* Python truthiness of an optional string: not None and not "".
TruthyStr(o) == o # None /\ o[1] # ""

\* Python truthiness of an optional list or dict: not None and not empty.
TruthySeq(o) == o # None /\ o[1] # <<>>

\* Mutant: `if self.x:` in place of `if self.x is not None:` (drops 0).
IsNotNone_truthy(o) == o # None /\ o[1] # 0

\* `self.x is not None`
IsNotNone(o) == o # None

Entry(cond, key, val) == IF cond THEN key :> val ELSE EmptyDoc

\* FieldSchema.to_generator_schema
RECURSIVE to_generator_schema(_)
to_generator_schema(f) ==
    ("type" :> f.type)
    @@ Entry(TruthyStr(f.format), "format", f.format[1])
    @@ Entry(f.required, "required", TRUE)
    @@ Entry(~f.nullable, "nullable", FALSE)
    @@ Entry(TruthySeq(f.enum), "enum", f.enum[1])
    @@ Entry(IsNotNone(f.min_length), "min_length", f.min_length[1])
    @@ Entry(IsNotNone(f.max_length), "max_length", f.max_length[1])
    @@ Entry(TruthyStr(f.pattern), "pattern", f.pattern[1])
    @@ Entry(IsNotNone(f.minimum), "minimum", f.minimum[1])
    @@ Entry(IsNotNone(f.maximum), "maximum", f.maximum[1])
    @@ Entry(f.items # None, "items", to_generator_schema(f.items[1]))
    @@ Entry(TruthySeq(f.properties), "properties",
             [i \in DOMAIN f.properties[1] |->
                 [key |-> f.properties[1][i].key,
                  val |-> to_generator_schema(f.properties[1][i].val)]])
    @@ Entry(IsNotNone(f.default), "default", f.default[1])

\* str.lower() on the strings the model uses.
Lower(s) ==
    CASE s = "UUID" -> "uuid"
      [] s = "Integer" -> "integer"
      [] s = "User Events" -> "user events"
      [] s = ".JSON" -> ".json"
      [] s = ".Avsc" -> ".avsc"
      [] OTHER -> s

\* format_map of to_simple_type, as (key, value) pairs.
format_map ==
    << [key |-> "uuid", val |-> "uuid"], [key |-> "email", val |-> "email"],
       [key |-> "date", val |-> "date"], [key |-> "date-time", val |-> "datetime"],
       [key |-> "datetime", val |-> "datetime"], [key |-> "time", val |-> "time"],
       [key |-> "uri", val |-> "url"], [key |-> "url", val |-> "url"],
       [key |-> "hostname", val |-> "hostname"], [key |-> "ipv4", val |-> "ipv4"],
       [key |-> "ipv6", val |-> "ipv6"], [key |-> "phone", val |-> "phone"] >>

\* type_map of to_simple_type.
type_map ==
    << [key |-> "string", val |-> "string"], [key |-> "integer", val |-> "integer"],
       [key |-> "int", val |-> "integer"], [key |-> "int32", val |-> "integer"],
       [key |-> "int64", val |-> "integer"], [key |-> "long", val |-> "integer"],
       [key |-> "number", val |-> "float"], [key |-> "float", val |-> "float"],
       [key |-> "double", val |-> "float"], [key |-> "decimal", val |-> "float"],
       [key |-> "boolean", val |-> "boolean"], [key |-> "bool", val |-> "boolean"],
       [key |-> "array", val |-> "array"], [key |-> "object", val |-> "object"] >>

\* FieldSchema.to_simple_type
to_simple_type(f) ==
    IF TruthyStr(f.format) /\ HasKey(format_map, Lower(f.format[1]))
    THEN Lookup(format_map, Lower(f.format[1]))
    ELSE IF HasKey(type_map, Lower(f.type))
         THEN Lookup(type_map, Lower(f.type))
         ELSE "string"

\* SchemaDefinition(...) with the defaults of the model.
SchemaDefinition(name, description, fields, source_format, source_entity, metadata) ==
    [name |-> name, description |-> description, fields |-> fields,
     source_format |-> source_format, source_file |-> None,
     source_entity |-> source_entity, metadata |-> metadata]

\* SchemaDefinition.get_required_fields
get_required_fields(sd) == SelectSeq(sd.fields, LAMBDA f : f.required)

\* SchemaDefinition.to_generator_schema: {field.name: field.to_generator_schema()}
schema_to_generator_schema(sd) ==
    DictFromPairs([i \in DOMAIN sd.fields |->
        [key |-> sd.fields[i].name, val |-> to_generator_schema(sd.fields[i])]])

\* SchemaDefinition.to_simple_schema: {field.name: field.to_simple_type()}
to_simple_schema(sd) ==
    DictFromPairs([i \in DOMAIN sd.fields |->
        [key |-> sd.fields[i].name, val |-> to_simple_type(sd.fields[i])]])

\* self.name.lower().replace(' ', '_') + "_profile", kept as its two parts.
ProfileName(name) ==
    [slug |-> IF Lower(name) = "user events" THEN "user_events" ELSE Lower(name),
     suffix |-> "_profile"]

\* Mutant: the pattern formatted eagerly (an f-string), embedding the time.
filename_pattern_formatted(clock) == <<"{persona}_{dataset_type}_", clock>>

\* The "filename_pattern" entry: a literal, left for the writer to format.
filename_pattern(clock) == <<"{persona}_{dataset_type}_", -1>>

\* SchemaDefinition.to_profile_dict; `clock` is what datetime.now() returns.
to_profile_dict(sd, dataset_type, count, clock) ==
    [name |-> ProfileName(sd.name),
     description |-> [source_format |-> sd.source_format, name |-> sd.name],
     version |-> "1.0.0",
     datasets |-> << [type |-> dataset_type, count |-> count, enabled |-> TRUE,
                      options |-> [schema |-> schema_to_generator_schema(sd)]] >>,
     output |-> [format |-> "json", directory |-> "./output",
                 filename_pattern |-> filename_pattern(clock),
                 pretty_print |-> TRUE, include_metadata |-> TRUE],
     metadata |-> [source_file |-> sd.source_file,
                   source_format |-> sd.source_format,
                   source_entity |-> IF TruthyStr(sd.source_entity)
                                     THEN sd.source_entity[1] ELSE sd.name,
                   generated_at |-> clock,
                   field_count |-> Len(sd.fields),
                   required_fields |->
                       [i \in DOMAIN get_required_fields(sd) |->
                           get_required_fields(sd)[i].name]]]

(***************************************************************************)
(* canonical.py: CanonicalSchemaParser                                     *)
(*                                                                         *)
(* A raw field of the document is a record: isDict says whether the JSON   *)
(* value is an object; every key is None when absent from the object; an   *)
(* explicit JSON null is the pair JNull; `properties` is Some(dict) with   *)
(* propsIsDict = FALSE when the value under that key is not an object.     *)
(***************************************************************************)
JNull == <<"null", "null">>

IsNull(o) == Len(o) = 2

VALID_TYPES == {"string", "integer", "float", "boolean", "array", "object"}

VALID_FORMATS ==
    {"uuid", "email", "date", "datetime", "date-time", "time",
     "url", "uri", "hostname", "ipv4", "ipv6", "phone"}

\* dict.get(key, default) on a raw object.
Get(o, default) == IF o = None THEN default ELSE o[1]

\* dict.get(key) on a raw object: None when absent (or JSON null).
GetOpt(o) == IF IsNull(o) THEN None ELSE o

Raise(err, path, detail) == [ok |-> FALSE, err |-> err, path |-> path, detail |-> detail]

Ok == [ok |-> TRUE]

FieldsSeg(i) == [seg |-> "fields", idx |-> i, key |-> ""]

ItemsSeg == [seg |-> "items", idx |-> -1, key |-> ""]

PropSeg(k) == [seg |-> "properties", idx |-> -1, key |-> k]

PropsSeg == [seg |-> "properties", idx |-> -1, key |-> ""]

\* Mutant: children validated before the field's own type and format.
RECURSIVE validate_field_children_first(_, _)
validate_field_children_first(field, path) ==
    LET RECURSIVE props(_)
        props(i) ==
            IF i > Len(field.properties[1]) THEN Ok
            ELSE LET r == validate_field_children_first(field.properties[1][i].val,
                              Append(path, PropSeg(field.properties[1][i].key)))
                 IN IF r.ok THEN props(i + 1) ELSE r
        kids ==
            IF field.type = Some("array") /\ field.items # None
            THEN validate_field_children_first(field.items[1], Append(path, ItemsSeg))
            ELSE IF field.type = Some("object") /\ field.properties # None
            THEN IF ~field.propsIsDict
                 THEN Raise("must be an object", Append(path, PropsSeg), "")
                 ELSE props(1)
            ELSE Ok
    IN IF ~field.isDict THEN Raise("field must be an object", path, "")
       ELSE IF field.name = None THEN Raise("field must have a 'name'", path, "")
       ELSE IF field.type = None THEN Raise("field must have a 'type'", path, "")
       ELSE IF ~kids.ok THEN kids
       ELSE IF field.type[1] \notin VALID_TYPES
            THEN Raise("invalid type", path, field.type[1])
       ELSE IF field.format # None /\ ~IsNull(field.format)
               /\ field.format[1] \notin VALID_FORMATS
            THEN Raise("invalid format", path, field.format[1])
       ELSE Ok

\* CanonicalSchemaParser._validate_field: the first ValueError raised, or Ok.
RECURSIVE _validate_field(_, _)
_validate_field(field, path) ==
    LET RECURSIVE props(_)
        props(i) ==
            IF i > Len(field.properties[1]) THEN Ok
            ELSE LET r == _validate_field(field.properties[1][i].val,
                              Append(path, PropSeg(field.properties[1][i].key)))
                 IN IF r.ok THEN props(i + 1) ELSE r
    IN IF ~field.isDict THEN Raise("field must be an object", path, "")
       ELSE IF field.name = None THEN Raise("field must have a 'name'", path, "")
       ELSE IF field.type = None THEN Raise("field must have a 'type'", path, "")
       ELSE IF field.type[1] \notin VALID_TYPES
            THEN Raise("invalid type", path, field.type[1])
       ELSE IF field.format # None /\ ~IsNull(field.format)
               /\ field.format[1] \notin VALID_FORMATS
            THEN Raise("invalid format", path, field.format[1])
       ELSE IF field.type[1] = "array" /\ field.items # None
            THEN _validate_field(field.items[1], Append(path, ItemsSeg))
       ELSE IF field.type[1] = "object" /\ field.properties # None
            THEN IF ~field.propsIsDict
                 THEN Raise("must be an object", Append(path, PropsSeg), "")
                 ELSE props(1)
       ELSE Ok

\* CanonicalSchemaParser._validate_structure (run by __init__).
_validate_structure(data) ==
    LET RECURSIVE each(_)
        each(i) ==
            IF i > Len(data.fields[1]) THEN Ok
            ELSE LET r == _validate_field(data.fields[1][i], <<FieldsSeg(i - 1)>>)
                 IN IF r.ok THEN each(i + 1) ELSE r
    IN IF ~data.isDict THEN Raise("Schema must be a JSON object", <<>>, "")
       ELSE IF data.name = None THEN Raise("Schema must have a 'name' field", <<>>, "")
       ELSE IF data.fields = None THEN Raise("Schema must have a 'fields' array", <<>>, "")
       ELSE IF ~data.fieldsIsList THEN Raise("'fields' must be an array", <<>>, "")
       ELSE IF Len(data.fields[1]) = 0
            THEN Raise("'fields' array must not be empty", <<>>, "")
       ELSE each(1)

\* Mutant: the alias normalization forgotten for uri.
normalize_format_no_uri(fmt) ==
    IF fmt = Some("date-time") THEN Some("datetime") ELSE fmt

\* The alias normalization of _parse_field (date-time -> datetime, uri -> url).
normalize_format(fmt) ==
    IF fmt = Some("date-time") THEN Some("datetime")
    ELSE IF fmt = Some("uri") THEN Some("url")
    ELSE fmt

\* CanonicalSchemaParser._parse_field
RECURSIVE canonical_parse_field(_)
canonical_parse_field(field_data) ==
    [name |-> field_data.name[1],
     type |-> field_data.type[1],
     format |-> normalize_format(GetOpt(field_data.format)),
     description |-> GetOpt(field_data.description),
     required |-> Get(field_data.required, FALSE),
     nullable |-> Get(field_data.nullable, TRUE),
     enum |-> GetOpt(field_data.enum),
     min_length |-> GetOpt(field_data.min_length),
     max_length |-> GetOpt(field_data.max_length),
     pattern |-> GetOpt(field_data.pattern),
     minimum |-> GetOpt(field_data.minimum),
     maximum |-> GetOpt(field_data.maximum),
     exclusive_minimum |-> Get(field_data.exclusive_minimum, FALSE),
     exclusive_maximum |-> Get(field_data.exclusive_maximum, FALSE),
     items |-> IF field_data.type = Some("array") /\ field_data.items # None
               THEN Some(canonical_parse_field(field_data.items[1]))
               ELSE None,
     min_items |-> GetOpt(field_data.min_items),
     max_items |-> GetOpt(field_data.max_items),
     unique_items |-> Get(field_data.unique_items, FALSE),
     properties |-> IF field_data.type = Some("object") /\ field_data.properties # None
                    THEN Some([i \in DOMAIN field_data.properties[1] |->
                              [key |-> field_data.properties[1][i].key,
                               val |-> canonical_parse_field(field_data.properties[1][i].val)]])
                    ELSE None,
     default |-> GetOpt(field_data.default),
     example |-> GetOpt(field_data.example)]

\* FieldSchema(...) as _parse_field calls it: name, required, nullable,
\* exclusive_minimum, exclusive_maximum and unique_items are declared str or
\* bool without `| None`, so a JSON null under one of these keys makes the
\* constructor raise ValidationError (children are built first).
RECURSIVE _parse_field_raises(_)
_parse_field_raises(field_data) ==
    \/ /\ field_data.type = Some("array")
       /\ field_data.items # None
       /\ _parse_field_raises(field_data.items[1])
    \/ /\ field_data.type = Some("object")
       /\ field_data.properties # None
       /\ \E i \in DOMAIN field_data.properties[1] :
              _parse_field_raises(field_data.properties[1][i].val)
    \/ IsNull(field_data.name)
    \/ IsNull(field_data.required)
    \/ IsNull(field_data.nullable)
    \/ IsNull(field_data.exclusive_minimum)
    \/ IsNull(field_data.exclusive_maximum)
    \/ IsNull(field_data.unique_items)

\* Whether parse() raises: in a _parse_field call, or in SchemaDefinition(...)
\* on a null schema name.
canonical_parse_raises(data) ==
    \/ \E i \in DOMAIN data.fields[1] : _parse_field_raises(data.fields[1][i])
    \/ IsNull(data.name)

\* CanonicalSchemaParser.parse
canonical_parse(data) ==
    SchemaDefinition(data.name[1], GetOpt(data.description),
                     [i \in DOMAIN data.fields[1] |-> canonical_parse_field(data.fields[1][i])],
                     "canonical", Some(data.name[1]), <<>>)

(***************************************************************************)
(* parser.py: SchemaParser, format detection                               *)
(*                                                                         *)
(* The content of a file is seen through what json.loads / yaml.safe_load  *)
(* make of it: kind is "object" for a dict, "other" for any other value    *)
(* and "invalid" when the decoder raises; keys are the keys of the dict    *)
(* and type the value under its `type` key when that is a string.          *)
(***************************************************************************)
EXTENSION_FORMATS ==
    << [key |-> ".json", val |-> None], [key |-> ".yaml", val |-> None],
       [key |-> ".yml", val |-> None], [key |-> ".avsc", val |-> Some("avro")],
       [key |-> ".sql", val |-> Some("ddl")], [key |-> ".ddl", val |-> Some("ddl")],
       [key |-> ".proto", val |-> Some("protobuf")] >>

Detected(format) == [ok |-> TRUE, format |-> format]

\* Mutant: the Avro test tried before the OpenAPI/Swagger test.
detect_json_yaml_format_avro_first(content) ==
    IF content.kind = "invalid" THEN Raise("Failed to parse file content", <<>>, "")
    ELSE IF content.kind # "object" THEN Raise("Schema must be a JSON/YAML object", <<>>, "")
    ELSE IF content.type = Some("record") /\ "fields" \in content.keys THEN Detected("avro")
    ELSE IF "openapi" \in content.keys \/ "swagger" \in content.keys THEN Detected("swagger")
    ELSE Detected("jsonschema")

\* SchemaParser._detect_json_yaml_format
_detect_json_yaml_format(content) ==
    IF content.kind = "invalid" THEN Raise("Failed to parse file content", <<>>, "")
    ELSE IF content.kind # "object" THEN Raise("Schema must be a JSON/YAML object", <<>>, "")
    ELSE IF "openapi" \in content.keys \/ "swagger" \in content.keys THEN Detected("swagger")
    ELSE IF content.type = Some("record") /\ "fields" \in content.keys THEN Detected("avro")
    ELSE IF "$schema" \in content.keys \/ "properties" \in content.keys
            \/ "type" \in content.keys
         THEN Detected("jsonschema")
    ELSE Detected("jsonschema")

\* SchemaParser._detect_format
_detect_format(path_suffix, content) ==
    LET suffix == Lower(path_suffix)
    IN IF HasKey(EXTENSION_FORMATS, suffix) /\ Lookup(EXTENSION_FORMATS, suffix) # None
       THEN Detected(Lookup(EXTENSION_FORMATS, suffix)[1])
       ELSE IF suffix \in {".json", ".yaml", ".yml"}
       THEN _detect_json_yaml_format(content)
       ELSE Raise("Cannot detect schema format for extension", <<>>, suffix)

(***************************************************************************)
(* jsonschema.py and swagger.py                                            *)
(*                                                                         *)
(* A schema object is a record with one field per keyword the parsers      *)
(* read (None: keyword absent).  The `type` keyword is `type` when its     *)
(* value is a string and `types` when it is a list; a `$ref` is kept as    *)
(* its prefix and its last path segment.                                   *)
(***************************************************************************)
JNode(type) ==
    [ref |-> None, type |-> type, types |-> None, format |-> None,
     description |-> None, required |-> None, properties |-> None, items |-> None,
     enum |-> None, minLength |-> None, maxLength |-> None, pattern |-> None,
     minimum |-> None, maximum |-> None,
     exclusiveMinimum |-> None, exclusiveMaximum |-> None,
     minItems |-> None, maxItems |-> None, uniqueItems |-> None,
     default |-> None, example |-> None, examples |-> None, nullable |-> None]

Ref(prefix, name) == [prefix |-> prefix, name |-> name]

\* dict.get(key, {}) / dict.get(key, []) on an optional dict or list.
GetSeq(o) == IF o = None THEN <<>> ELSE o[1]

\* JsonSchemaParser._get_definitions: `definitions` updated with `$defs`.
RECURSIVE DictUpdate(_, _)
DictUpdate(d, other) ==
    IF other = <<>> THEN d
    ELSE DictUpdate(DictSet(d, other[1].key, other[1].val), Tail(other))

_get_definitions(root) == DictUpdate(GetSeq(root.definitions), GetSeq(root.defs))

\* JsonSchemaParser._resolve_ref
js_resolve_ref(sch, definitions) ==
    IF sch.ref = None THEN sch
    ELSE IF sch.ref[1].prefix \in {"#/definitions/", "#/$defs/"}
            /\ HasKey(definitions, sch.ref[1].name)
         THEN Lookup(definitions, sch.ref[1].name)
    ELSE sch

\* next((t for t in field_type if t != "null"), "string")
RECURSIVE FirstNonNull(_)
FirstNonNull(types) ==
    IF types = <<>> THEN "string"
    ELSE IF types[1] # "null" THEN types[1]
    ELSE FirstNonNull(Tail(types))

\* JsonSchemaParser._parse_field and _parse_object_schema
RECURSIVE js_parse_field(_, _, _, _)
RECURSIVE js_parse_object_schema(_, _)
js_parse_field(name, schema0, required, definitions) ==
    LET sch == js_resolve_ref(schema0, definitions)
        field_type == IF sch.types # None THEN FirstNonNull(sch.types[1])
                      ELSE Get(sch.type, "string")
    IN [FieldSchema(name, field_type) EXCEPT
          !.format = sch.format,
          !.description = sch.description,
          !.required = required,
          !.nullable = IF sch.types # None /\ "null" \in Range(sch.types[1])
                       THEN TRUE ELSE ~required,
          !.enum = sch.enum,
          !.min_length = sch.minLength,
          !.max_length = sch.maxLength,
          !.pattern = sch.pattern,
          !.minimum = sch.minimum,
          !.maximum = sch.maximum,
          !.exclusive_minimum = Get(sch.exclusiveMinimum, FALSE),
          !.exclusive_maximum = Get(sch.exclusiveMaximum, FALSE),
          !.items = IF field_type = "array" /\ sch.items # None
                    THEN Some(js_parse_field("item",
                                 js_resolve_ref(sch.items[1], definitions),
                                 FALSE, definitions))
                    ELSE None,
          !.min_items = sch.minItems,
          !.max_items = sch.maxItems,
          !.unique_items = Get(sch.uniqueItems, FALSE),
          !.properties = IF field_type = "object" /\ sch.properties # None
                         THEN LET nested == js_parse_object_schema(sch, definitions)
                              IN Some(DictFromPairs([i \in DOMAIN nested |->
                                     [key |-> nested[i].name, val |-> nested[i]]]))
                         ELSE None,
          !.default = sch.default,
          !.example = IF sch.examples # None /\ sch.examples[1] # <<>>
                      THEN Some(sch.examples[1][1])
                      ELSE sch.example]

\* Mutant: the property is handed to _parse_field without being resolved.
js_parse_object_schema_unresolved(sch, definitions) ==
    LET properties == GetSeq(sch.properties)
    IN [i \in DOMAIN properties |->
          js_parse_field(properties[i].key,
                         properties[i].val,
                         properties[i].key \in Range(GetSeq(sch.required)),
                         definitions)]

js_parse_object_schema(sch, definitions) ==
    LET properties == GetSeq(sch.properties)
    IN [i \in DOMAIN properties |->
          js_parse_field(properties[i].key,
                         js_resolve_ref(properties[i].val, definitions),
                         properties[i].key \in Range(GetSeq(sch.required)),
                         definitions)]

\* JsonSchemaParser(schema): the root document and the merged definitions.
JsonSchemaParser(root) ==
    [format |-> "jsonschema",
     schema |-> IF root.definitions # None
                THEN [root EXCEPT !.definitions = Some(_get_definitions(root))]
                ELSE root,
     _definitions |-> _get_definitions(root)]

\* JsonSchemaParser.list_definitions
list_definitions(p) == [i \in DOMAIN p._definitions |-> p._definitions[i].key]

Returned(sd) == [ok |-> TRUE, schema |-> sd]

\* raise ValueError(f"... '{name}' not found. Available: {available}")
NotFound(err, name, available) ==
    [ok |-> FALSE, err |-> err, name |-> name, available |-> available]

\* JsonSchemaParser.parse
js_parse(p) ==
    LET name == Get(p.schema.title, "Schema")
        fields == IF p.schema.node.type = Some("object") \/ p.schema.node.properties # None
                  THEN js_parse_object_schema(p.schema.node, p._definitions)
                  ELSE <<js_parse_field("value", p.schema.node, TRUE, p._definitions)>>
    IN Returned(SchemaDefinition(name, p.schema.node.description, fields,
                    "jsonschema", Some(name),
                    <<[key |-> "schema_version", val |-> p.schema.schema_version],
                      [key |-> "id", val |-> p.schema.id]>>))

\* JsonSchemaParser.parse_definition
parse_definition(p, definition_name) ==
    IF ~HasKey(p._definitions, definition_name)
    THEN NotFound("Definition not found", definition_name, list_definitions(p))
    ELSE LET def_schema == Lookup(p._definitions, definition_name)
         IN Returned(SchemaDefinition(definition_name, def_schema.description,
                        js_parse_object_schema(def_schema, p._definitions),
                        "jsonschema", Some(definition_name),
                        <<[key |-> "schema_version", val |-> p.schema.schema_version]>>))

\* The $ref prefixes that start with "#/".
LocalRefPrefixes == {"#/definitions/", "#/$defs/", "#/components/schemas/"}

\* SwaggerParser._resolve_ref
sw_resolve_ref(sch, all_schemas) ==
    IF sch.ref = None THEN sch
    ELSE IF sch.ref[1].prefix \in LocalRefPrefixes
            /\ HasKey(all_schemas, sch.ref[1].name)
         THEN Lookup(all_schemas, sch.ref[1].name)
    ELSE sch

\* SwaggerParser._parse_field and _parse_object_schema
RECURSIVE sw_parse_field(_, _, _, _)
RECURSIVE sw_parse_object_schema(_, _)
sw_parse_field(name, schema0, required, all_schemas) ==
    LET sch == sw_resolve_ref(schema0, all_schemas)
        field_type == Get(sch.type, "string")
    IN [FieldSchema(name, field_type) EXCEPT
          !.format = sch.format,
          !.description = sch.description,
          !.required = required,
          !.nullable = Get(sch.nullable, ~required),
          !.enum = sch.enum,
          !.min_length = sch.minLength,
          !.max_length = sch.maxLength,
          !.pattern = sch.pattern,
          !.minimum = sch.minimum,
          !.maximum = sch.maximum,
          !.exclusive_minimum = Get(sch.exclusiveMinimum, FALSE),
          !.exclusive_maximum = Get(sch.exclusiveMaximum, FALSE),
          !.items = IF field_type = "array" /\ sch.items # None
                    THEN Some(sw_parse_field("item",
                                 sw_resolve_ref(sch.items[1], all_schemas),
                                 FALSE, all_schemas))
                    ELSE None,
          !.min_items = sch.minItems,
          !.max_items = sch.maxItems,
          !.unique_items = Get(sch.uniqueItems, FALSE),
          !.properties = IF field_type = "object" /\ sch.properties # None
                         THEN LET nested == sw_parse_object_schema(sch, all_schemas)
                              IN Some(DictFromPairs([i \in DOMAIN nested |->
                                     [key |-> nested[i].name, val |-> nested[i]]]))
                         ELSE None,
          !.default = sch.default,
          !.example = sch.example]

sw_parse_object_schema(sch, all_schemas) ==
    LET properties == GetSeq(sch.properties)
    IN [i \in DOMAIN properties |->
          sw_parse_field(properties[i].key,
                         sw_resolve_ref(properties[i].val, all_schemas),
                         properties[i].key \in Range(GetSeq(sch.required)),
                         all_schemas)]

\* SwaggerParser(spec): the spec document; _is_openapi3 from its `openapi` key.
SwaggerParser(spec) ==
    [format |-> "swagger", spec |-> spec,
     _is_openapi3 |-> spec.openapi # None /\ spec.openapi[1] \in {"3.0.0", "3.1.0"}]

\* The schema registry read by list_schemas and parse_schema.
sw_schemas(p) ==
    IF p._is_openapi3 THEN GetSeq(p.spec.components_schemas)
    ELSE GetSeq(p.spec.definitions)

\* SwaggerParser.list_schemas
list_schemas(p) == [i \in DOMAIN sw_schemas(p) |-> sw_schemas(p)[i].key]

\* SwaggerParser.parse_schema
parse_schema(p, schema_name) ==
    IF ~HasKey(sw_schemas(p), schema_name)
    THEN NotFound("Schema not found", schema_name, list_schemas(p))
    ELSE LET schema_data == Lookup(sw_schemas(p), schema_name)
         IN Returned(SchemaDefinition(schema_name, schema_data.description,
                        sw_parse_object_schema(schema_data, sw_schemas(p)),
                        "swagger", Some(schema_name),
                        <<[key |-> "openapi_version",
                           val |-> IF TruthyStr(p.spec.openapi) THEN p.spec.openapi
                                   ELSE p.spec.swagger],
                          [key |-> "info", val |-> <<>>]>>))

(***************************************************************************)
(* avro.py: AvroParser                                                     *)
(*                                                                         *)
(* An Avro schema value is a record tagged by k: "str" (a type name, s),   *)
(* "list" (a union, ts) or "dict" (an object, one field per key read by    *)
(* the parser, None when absent).                                          *)
(***************************************************************************)
ADict(type) ==
    [k |-> "dict", s |-> "", ts |-> <<>>, type |-> type, name |-> None,
     namespace |-> None, doc |-> None, fields |-> None, symbols |-> None,
     items |-> None, values |-> None, size |-> None, logicalType |-> None]

AStr(s) == [ADict(None) EXCEPT !.k = "str", !.s = s]

AList(ts) == [ADict(None) EXCEPT !.k = "list", !.ts = ts]

\* A field object of a record: {"name": ..., "type": ...}.
AField(name, type) == [name |-> name, doc |-> None, default |-> None, type |-> type]

PRIMITIVE_TYPES ==
    << [key |-> "null", val |-> "null"], [key |-> "boolean", val |-> "boolean"],
       [key |-> "int", val |-> "integer"], [key |-> "long", val |-> "integer"],
       [key |-> "float", val |-> "float"], [key |-> "double", val |-> "float"],
       [key |-> "bytes", val |-> "string"], [key |-> "string", val |-> "string"] >>

LOGICAL_TYPE_FORMATS ==
    << [key |-> "decimal", val |-> "decimal"], [key |-> "uuid", val |-> "uuid"],
       [key |-> "date", val |-> "date"], [key |-> "time-millis", val |-> "time"],
       [key |-> "time-micros", val |-> "time"],
       [key |-> "timestamp-millis", val |-> "datetime"],
       [key |-> "timestamp-micros", val |-> "datetime"],
       [key |-> "local-timestamp-millis", val |-> "datetime"],
       [key |-> "local-timestamp-micros", val |-> "datetime"],
       [key |-> "duration", val |-> "duration"] >>

\* f"{namespace}.{name}" if namespace else name
QualifiedName(namespace, name) ==
    IF namespace = "" THEN name
    ELSE CASE namespace = "com.ex" /\ name = "User" -> "com.ex.User"
           [] namespace = "com.ex" /\ name = "Address" -> "com.ex.Address"
           [] namespace = "com.ex" /\ name = "Status" -> "com.ex.Status"
           [] namespace = "com.ex" /\ name = "" -> "com.ex."
           [] namespace = "shop" /\ name = "users" -> "shop.users"
           [] namespace = "shop" /\ name = "User" -> "shop.User"
           [] namespace = "com.ex" /\ name = "Inner" -> "com.ex.Inner"
           [] namespace = "shop" /\ name = "Inner" -> "shop.Inner"

\* "." in name
HasDot(name) ==
    name \in {"com.ex.User", "com.ex.Address", "com.ex.Status", "com.ex.",
              "com.ex", "shop.users", "shop.User", "com.ex.Inner", "shop.Inner"}

\* AvroParser._collect_named_types, as the registry it leaves behind.
RECURSIVE _collect_named_types(_, _)
_collect_named_types(sch, named_types) ==
    LET RECURSIVE each(_, _, _)
        each(list, i, reg) ==
            IF i > Len(list) THEN reg
            ELSE each(list, i + 1, _collect_named_types(list[i], reg))
        fieldTypes == [i \in DOMAIN GetSeq(sch.fields) |->
                         IF sch.fields[1][i].type = None THEN ADict(None)
                         ELSE sch.fields[1][i].type[1]]
        named == IF sch.type # None /\ sch.type[1] \in {"record", "enum", "fixed"}
                 THEN DictSet(DictSet(named_types, Get(sch.name, ""), sch),
                              QualifiedName(Get(sch.namespace, ""), Get(sch.name, "")), sch)
                 ELSE named_types
    IN IF sch.k = "str" THEN named_types
       ELSE IF sch.k = "list" THEN each(sch.ts, 1, named_types)
       ELSE IF sch.type = Some("record") THEN each(fieldTypes, 1, named)
       ELSE IF sch.type = Some("array")
            THEN _collect_named_types(Get(sch.items, ADict(None)), named)
       ELSE IF sch.type = Some("map")
            THEN _collect_named_types(Get(sch.values, ADict(None)), named)
       ELSE named

\* AvroParser(schema)
AvroParser(sch) ==
    [format |-> "avro", schema |-> sch, _named_types |-> _collect_named_types(sch, <<>>)]

\* Mutant: every named type is listed, not only the records.
list_records_all_named(p) ==
    LET listed == SelectSeq(p._named_types, LAMBDA e : ~HasDot(e.key))
    IN [i \in DOMAIN listed |-> listed[i].key]

\* AvroParser.list_records
list_records(p) ==
    LET listed == SelectSeq(p._named_types,
                            LAMBDA e : e.val.type = Some("record") /\ ~HasDot(e.key))
    IN [i \in DOMAIN listed |-> listed[i].key]

\* The type_info dict built by _parse_type (None: key absent).
TypeInfo(type) ==
    [type |-> type, format |-> None, nullable |-> None, enum |-> None,
     items |-> None, properties |-> None, min_length |-> None, max_length |-> None]

\* AvroParser._parse_type, _parse_union_type, _parse_complex_type, _parse_field
RECURSIVE _parse_type(_, _)
RECURSIVE avro_parse_field(_, _)
\* Mutant: the union resolves to its first member, "null" or not.
_parse_union_type_first_member(types, named_types) ==
    LET nullable == \E i \in DOMAIN types : types[i].k = "str" /\ types[i].s = "null"
    IN IF types = <<>>
       THEN [TypeInfo("null") EXCEPT !.nullable = Some(TRUE)]
       ELSE [_parse_type(types[1], named_types) EXCEPT !.nullable = Some(nullable)]

_parse_union_type(types, named_types) ==
    LET nullable == \E i \in DOMAIN types : types[i].k = "str" /\ types[i].s = "null"
        non_null_types == SelectSeq(types, LAMBDA t : ~(t.k = "str" /\ t.s = "null"))
    IN IF non_null_types = <<>>
       THEN [TypeInfo("null") EXCEPT !.nullable = Some(TRUE)]
       ELSE [_parse_type(non_null_types[1], named_types) EXCEPT !.nullable = Some(nullable)]

_parse_complex_type(type_schema, named_types) ==
    LET type_name == Get(type_schema.type, "")
        nested == [i \in DOMAIN GetSeq(type_schema.fields) |->
                     avro_parse_field(type_schema.fields[1][i], named_types)]
        items_info == IF type_schema.items = None THEN TypeInfo("string")
                      ELSE _parse_type(type_schema.items[1], named_types)
    IN IF TruthyStr(type_schema.logicalType)
       THEN [TypeInfo(IF HasKey(PRIMITIVE_TYPES, type_name)
                      THEN Lookup(PRIMITIVE_TYPES, type_name) ELSE "string")
               EXCEPT !.format = IF HasKey(LOGICAL_TYPE_FORMATS, type_schema.logicalType[1])
                                 THEN Some(Lookup(LOGICAL_TYPE_FORMATS, type_schema.logicalType[1]))
                                 ELSE None]
       ELSE IF type_name = "record"
       THEN [TypeInfo("object") EXCEPT
               !.properties = Some(DictFromPairs([i \in DOMAIN nested |->
                                  [key |-> nested[i].name, val |-> nested[i]]]))]
       ELSE IF type_name = "enum"
       THEN [TypeInfo("string") EXCEPT !.enum = Some(GetSeq(type_schema.symbols))]
       ELSE IF type_name = "array"
       THEN [TypeInfo("array") EXCEPT
               !.items = Some([FieldSchema("item", items_info.type) EXCEPT
                                  !.format = items_info.format,
                                  !.enum = items_info.enum])]
       ELSE IF type_name = "map"
       THEN [TypeInfo("object") EXCEPT !.format = Some("map")]
       ELSE IF type_name = "fixed"
       THEN [TypeInfo("string") EXCEPT
               !.min_length = Some(Get(type_schema.size, 0)),
               !.max_length = Some(Get(type_schema.size, 0))]
       ELSE IF HasKey(PRIMITIVE_TYPES, type_name)
       THEN TypeInfo(Lookup(PRIMITIVE_TYPES, type_name))
       ELSE TypeInfo("string")

\* Mutant: a type name that is neither primitive nor registered gives null.
_parse_type_strict(avro_type, named_types) ==
    IF avro_type.k = "list" THEN _parse_union_type(avro_type.ts, named_types)
    ELSE IF avro_type.k = "str"
    THEN IF HasKey(PRIMITIVE_TYPES, avro_type.s)
         THEN TypeInfo(Lookup(PRIMITIVE_TYPES, avro_type.s))
         ELSE IF HasKey(named_types, avro_type.s)
         THEN _parse_type(Lookup(named_types, avro_type.s), named_types)
         ELSE TypeInfo("null")
    ELSE _parse_complex_type(avro_type, named_types)

_parse_type(avro_type, named_types) ==
    IF avro_type.k = "list" THEN _parse_union_type(avro_type.ts, named_types)
    ELSE IF avro_type.k = "str"
    THEN IF HasKey(PRIMITIVE_TYPES, avro_type.s)
         THEN TypeInfo(Lookup(PRIMITIVE_TYPES, avro_type.s))
         ELSE IF HasKey(named_types, avro_type.s)
         THEN _parse_type(Lookup(named_types, avro_type.s), named_types)
         ELSE TypeInfo("string")
    ELSE _parse_complex_type(avro_type, named_types)

avro_parse_field(field, named_types) ==
    LET type_info == IF field.type = None THEN TypeInfo("string")
                     ELSE _parse_type(field.type[1], named_types)
    IN [FieldSchema(Get(field.name, ""), type_info.type) EXCEPT
          !.format = type_info.format,
          !.description = field.doc,
          !.required = ~Get(type_info.nullable, FALSE),
          !.nullable = Get(type_info.nullable, FALSE),
          !.enum = type_info.enum,
          !.items = type_info.items,
          !.properties = type_info.properties,
          !.default = field.default,
          !.min_length = type_info.min_length,
          !.max_length = type_info.max_length]

\* Mutant: the value type of a map is not parsed.
_parse_type_calls_no_map(avro_type, named_types) ==
    IF avro_type.k = "list"
    THEN LET non_null_types ==
                 SelectSeq(avro_type.ts, LAMBDA t : ~(t.k = "str" /\ t.s = "null"))
         IN IF non_null_types = <<>> THEN <<>> ELSE <<non_null_types[1]>>
    ELSE IF avro_type.k = "str"
    THEN IF HasKey(PRIMITIVE_TYPES, avro_type.s) THEN <<>>
         ELSE IF HasKey(named_types, avro_type.s)
         THEN <<Lookup(named_types, avro_type.s)>>
         ELSE <<>>
    ELSE LET type_name == Get(avro_type.type, "")
             typed == SelectSeq(GetSeq(avro_type.fields), LAMBDA f : f.type # None)
         IN IF TruthyStr(avro_type.logicalType) THEN <<>>
            ELSE IF type_name = "record" THEN [i \in DOMAIN typed |-> typed[i].type[1]]
            ELSE IF type_name = "array" THEN avro_type.items
            ELSE <<>>

\* The types on which one call of _parse_type(avro_type) calls _parse_type
\* in turn, in call order: the first non-null member of a union, the
\* definition of a named type, the field types of a record (through
\* _parse_field), the items of an array, the values of a map.
_parse_type_calls(avro_type, named_types) ==
    IF avro_type.k = "list"
    THEN LET non_null_types ==
                 SelectSeq(avro_type.ts, LAMBDA t : ~(t.k = "str" /\ t.s = "null"))
         IN IF non_null_types = <<>> THEN <<>> ELSE <<non_null_types[1]>>
    ELSE IF avro_type.k = "str"
    THEN IF HasKey(PRIMITIVE_TYPES, avro_type.s) THEN <<>>
         ELSE IF HasKey(named_types, avro_type.s)
         THEN <<Lookup(named_types, avro_type.s)>>
         ELSE <<>>
    ELSE LET type_name == Get(avro_type.type, "")
             typed == SelectSeq(GetSeq(avro_type.fields), LAMBDA f : f.type # None)
         IN IF TruthyStr(avro_type.logicalType) THEN <<>>
            ELSE IF type_name = "record" THEN [i \in DOMAIN typed |-> typed[i].type[1]]
            ELSE IF type_name = "array" THEN avro_type.items
            ELSE IF type_name = "map" THEN avro_type.values
            ELSE <<>>

\* AvroParser._parse_record
_parse_record(p, record_schema) ==
    LET name == Get(record_schema.name, "Record")
        namespace == Get(record_schema.namespace, "")
    IN Returned(SchemaDefinition(name, record_schema.doc,
                   [i \in DOMAIN GetSeq(record_schema.fields) |->
                      avro_parse_field(record_schema.fields[1][i], p._named_types)],
                   "avro", Some(QualifiedName(namespace, name)),
                   <<[key |-> "namespace", val |-> namespace],
                     [key |-> "aliases", val |-> <<>>]>>))

\* Mutant: parse() is the first listed record, whatever the root is.
avro_parse_first_record(p) ==
    IF list_records(p) = <<>>
    THEN Raise("Root Avro schema must be a record type", <<>>, "")
    ELSE _parse_record(p, Lookup(p._named_types, list_records(p)[1]))

\* AvroParser.parse: self.schema.get(...) raises AttributeError unless the
\* root is an object.
avro_parse(p) ==
    IF p.schema.k # "dict" THEN Raise("AttributeError", <<>>, "get")
    ELSE IF p.schema.type # Some("record")
    THEN Raise("Root Avro schema must be a record type", <<>>, "")
    ELSE _parse_record(p, p.schema)

\* AvroParser.parse_record
parse_record(p, record_name) ==
    IF ~HasKey(p._named_types, record_name)
    THEN NotFound("Record not found", record_name, list_records(p))
    ELSE _parse_record(p, Lookup(p._named_types, record_name))

(***************************************************************************)
(* ddl.py: DDLParser                                                       *)
(*                                                                         *)
(* The DDL text is a sequence of tokens.  Tokens are joined by one space,  *)
(* with no space after "(" or "." and none before ")", ",", "." or "[]";   *)
(* the token "NL" is a line break.  A word token is a run of \w            *)
(* characters; a literal token is a quoted string.                         *)
(***************************************************************************)
Punctuation == {"(", ")", ",", ".", ";", "[]", "NL"}

Literals == {"'a'", "'b'", "'c'", "'NOT NULL'"}

\* The token matches \w+ entirely.
IsWord(t) == t \notin Punctuation /\ t \notin Literals

\* str.upper() on a token.
Upper(t) ==
    CASE t = "create" -> "CREATE"
      [] t = "table" -> "TABLE"
      [] t = "not" -> "NOT"
      [] t = "null" -> "NULL"
      [] t = "primary" -> "PRIMARY"
      [] t = "key" -> "KEY"
      [] t = "key_id" -> "KEY_ID"
      [] t = "unique_code" -> "UNIQUE_CODE"
      [] t = "in" -> "IN"
      [] t = "check" -> "CHECK"
      [] t = "default" -> "DEFAULT"
      [] t = "if" -> "IF"
      [] t = "exists" -> "EXISTS"
      [] OTHER -> t

\* str.lower() on a type token.
LowerType(t) ==
    CASE t = "INT" -> "int"
      [] t = "INTEGER" -> "integer"
      [] t = "BIGINT" -> "bigint"
      [] t = "VARCHAR" -> "varchar"
      [] t = "TEXT" -> "text"
      [] t = "UUID" -> "uuid"
      [] t = "DOUBLE" -> "double"
      [] t = "PRECISION" -> "precision"
      [] t = "DECIMAL" -> "decimal"
      [] t = "BOOLEAN" -> "boolean"
      [] t = "TIMESTAMP" -> "timestamp"
      [] t = "NOT" -> "not"
      [] t = "NULL" -> "null"
      [] t = "PRIMARY" -> "primary"
      [] t = "KEY" -> "key"
      [] t = "DEFAULT" -> "default"
      [] t = "UNIQUE" -> "unique"
      [] t = "CHECK" -> "check"
      [] OTHER -> t

\* TYPE_MAPPING, keyed by the words of the lowered type.
TYPE_MAPPING ==
    << [key |-> <<"int">>, val |-> "integer"], [key |-> <<"integer">>, val |-> "integer"],
       [key |-> <<"smallint">>, val |-> "integer"], [key |-> <<"tinyint">>, val |-> "integer"],
       [key |-> <<"bigint">>, val |-> "integer"], [key |-> <<"serial">>, val |-> "integer"],
       [key |-> <<"bigserial">>, val |-> "integer"],
       [key |-> <<"smallserial">>, val |-> "integer"],
       [key |-> <<"float">>, val |-> "float"], [key |-> <<"real">>, val |-> "float"],
       [key |-> <<"double">>, val |-> "float"],
       [key |-> <<"double", "precision">>, val |-> "float"],
       [key |-> <<"decimal">>, val |-> "float"], [key |-> <<"numeric">>, val |-> "float"],
       [key |-> <<"money">>, val |-> "float"],
       [key |-> <<"char">>, val |-> "string"], [key |-> <<"character">>, val |-> "string"],
       [key |-> <<"varchar">>, val |-> "string"],
       [key |-> <<"character", "varying">>, val |-> "string"],
       [key |-> <<"text">>, val |-> "text"], [key |-> <<"clob">>, val |-> "text"],
       [key |-> <<"nchar">>, val |-> "string"], [key |-> <<"nvarchar">>, val |-> "string"],
       [key |-> <<"ntext">>, val |-> "text"],
       [key |-> <<"boolean">>, val |-> "boolean"], [key |-> <<"bool">>, val |-> "boolean"],
       [key |-> <<"bit">>, val |-> "boolean"],
       [key |-> <<"date">>, val |-> "date"], [key |-> <<"time">>, val |-> "time"],
       [key |-> <<"datetime">>, val |-> "datetime"],
       [key |-> <<"datetime2">>, val |-> "datetime"],
       [key |-> <<"timestamp">>, val |-> "datetime"],
       [key |-> <<"timestamptz">>, val |-> "datetime"],
       [key |-> <<"timestamp", "with", "time", "zone">>, val |-> "datetime"],
       [key |-> <<"timestamp", "without", "time", "zone">>, val |-> "datetime"],
       [key |-> <<"binary">>, val |-> "string"], [key |-> <<"varbinary">>, val |-> "string"],
       [key |-> <<"blob">>, val |-> "string"], [key |-> <<"bytea">>, val |-> "string"],
       [key |-> <<"uuid">>, val |-> "uuid"],
       [key |-> <<"uniqueidentifier">>, val |-> "uuid"],
       [key |-> <<"json">>, val |-> "object"], [key |-> <<"jsonb">>, val |-> "object"],
       [key |-> <<"array">>, val |-> "array"] >>

\* NAME_FORMAT_HINTS
NAME_FORMAT_HINTS ==
    << [key |-> "email", val |-> "email"], [key |-> "phone", val |-> "phone"],
       [key |-> "url", val |-> "url"], [key |-> "website", val |-> "url"],
       [key |-> "address", val |-> "address"], [key |-> "city", val |-> "city"],
       [key |-> "country", val |-> "country"], [key |-> "zip", val |-> "string"],
       [key |-> "postal", val |-> "string"] >>

\* `sub in name_lower` for the column names of the model.
NameContains(name, sub) ==
    \/ name = sub
    \/ name = "user_uuid" /\ sub = "uuid"
    \/ name = "work_email" /\ sub = "email"

\* The index of the first token at or after i that is not a line break.
RECURSIVE SkipWs(_, _)
SkipWs(toks, i) ==
    IF i <= Len(toks) /\ toks[i] = "NL" THEN SkipWs(toks, i + 1) ELSE i

Slice(toks, from, to) == SubSeq(toks, from, to)

\* DDLParser._extract_balanced_parens: the tokens from start_pos up to the
\* parenthesis that closes the one before start_pos, or None.
_extract_balanced_parens(content, start_pos) ==
    LET RECURSIVE scan(_, _)
        scan(pos, depth) ==
            IF depth = 0 THEN Some(Slice(content, start_pos, pos - 2))
            ELSE IF pos > Len(content) THEN None
            ELSE scan(pos + 1,
                      IF content[pos] = "(" THEN depth + 1
                      ELSE IF content[pos] = ")" THEN depth - 1
                      ELSE depth)
    IN scan(start_pos, 1)

\* Mutant: every comma splits, whatever the nesting depth.
_split_columns_every_comma(columns_str) ==
    LET RECURSIVE split(_, _, _)
        split(i, current, parts) ==
            IF i > Len(columns_str)
            THEN IF current # <<>> THEN Append(parts, current) ELSE parts
            ELSE IF columns_str[i] = ","
            THEN split(i + 1, <<>>, Append(parts, current))
            ELSE split(i + 1, Append(current, columns_str[i]), parts)
    IN split(1, <<>>, <<>>)

\* DDLParser._split_columns: split at the commas outside parentheses.
_split_columns(columns_str) ==
    LET RECURSIVE split(_, _, _, _)
        split(i, depth, current, parts) ==
            IF i > Len(columns_str)
            THEN IF current # <<>> THEN Append(parts, current) ELSE parts
            ELSE IF columns_str[i] = "("
            THEN split(i + 1, depth + 1, Append(current, "("), parts)
            ELSE IF columns_str[i] = ")"
            THEN split(i + 1, depth - 1, Append(current, ")"), parts)
            ELSE IF columns_str[i] = "," /\ depth = 0
            THEN split(i + 1, depth, <<>>, Append(parts, current))
            ELSE split(i + 1, depth, Append(current, columns_str[i]), parts)
    IN split(1, 0, <<>>, <<>>)

\* str.strip(): leading and trailing line breaks removed.
RECURSIVE Strip(_)
Strip(part) ==
    IF part # <<>> /\ part[1] = "NL" THEN Strip(Tail(part))
    ELSE IF part # <<>> /\ part[Len(part)] = "NL" THEN Strip(SubSeq(part, 1, Len(part) - 1))
    ELSE part

\* upper_part.startswith(kw) for a one-word keyword.
StartsWithKeyword(t) ==
    Upper(t) \in {"UNIQUE", "CHECK", "CONSTRAINT", "INDEX", "KEY",
                  "UNIQUE_CODE", "KEY_ID"}

\* DDLParser._is_constraint (the part is stripped and not empty).
_is_constraint(part) ==
    \/ StartsWithKeyword(part[1])
    \/ /\ Len(part) >= 2
       /\ Upper(part[1]) \in {"PRIMARY", "FOREIGN"}
       /\ Upper(part[2]) \in {"KEY", "KEY_ID"}

\* `needle in constraints_upper` for a two-word needle: two adjacent tokens
\* (one space apart), or a literal that holds the words.
ContainsPair(toks, w1, w2) ==
    \/ \E i \in 1..(Len(toks) - 1) : Upper(toks[i]) = w1 /\ Upper(toks[i + 1]) = w2
    \/ w1 = "NOT" /\ w2 = "NULL" /\ "'NOT NULL'" \in Range(toks)

ContainsWord(toks, w) == \E i \in DOMAIN toks : Upper(toks[i]) = w

\* int(...) of a size token; None stands for ValueError.
ToInt(t) ==
    CASE t = "10" -> Some(10)
      [] t = "100" -> Some(100)
      [] t = "2" -> Some(2)
      [] OTHER -> None

\* value.strip("'\"") on a token.
Unquote(t) ==
    CASE t = "'a'" -> "a"
      [] t = "'b'" -> "b"
      [] t = "'c'" -> "c"
      [] t = "'NOT NULL'" -> "NOT NULL"
      [] OTHER -> t

\* The index of the first ")" at or after i, or 0.
RECURSIVE FirstClose(_, _)
FirstClose(toks, i) ==
    IF i > Len(toks) THEN 0
    ELSE IF toks[i] = ")" THEN i
    ELSE FirstClose(toks, i + 1)

\* The tokens before the first line break: what (.*) can match.
RECURSIVE ToLineEnd(_)
ToLineEnd(toks) ==
    IF toks = <<>> \/ toks[1] = "NL" THEN <<>>
    ELSE <<toks[1]>> \o ToLineEnd(Tail(toks))

\* A string cut from the text, as its tokens; .strip("'\"") takes the quotes
\* off a value that is one literal.
Cut(toks) ==
    LET v == Strip(toks)
    IN IF Len(v) = 1 THEN <<Unquote(v[1])>> ELSE v

\* [v.strip().strip("'\"") for v in enum_str.split(",")]
EnumValues(toks) ==
    LET RECURSIVE pieces(_, _, _)
        pieces(i, current, out) ==
            IF i > Len(toks) THEN Append(out, Cut(current))
            ELSE IF toks[i] = "," THEN pieces(i + 1, <<>>, Append(out, Cut(current)))
            ELSE pieces(i + 1, Append(current, toks[i]), out)
    IN pieces(1, <<>>, <<>>)

\* No space separates the tokens a and b in the text.
Glued(a, b) == a \in {"(", "."} \/ b \in {")", ",", ".", "[]"}

\* re.search(r"DEFAULT\s+([^\s,]+)", constraints_str): the run of text after
\* the first DEFAULT that is followed by one, or None.
DefaultValue(toks) ==
    LET Starts(d) ==
            /\ Upper(toks[d]) = "DEFAULT"
            /\ SkipWs(toks, d + 1) <= Len(toks)
            /\ toks[SkipWs(toks, d + 1)] # ","
            /\ ~Glued(toks[d], toks[d + 1])
        ds == {d \in DOMAIN toks : Starts(d)}
        RECURSIVE run(_)
        run(i) ==
            IF i < Len(toks) /\ toks[i + 1] \notin {",", "NL"} /\ Glued(toks[i], toks[i + 1])
            THEN <<toks[i]>> \o run(i + 1)
            ELSE <<toks[i]>>
    IN IF ds = {} THEN None
       ELSE Some(Cut(run(SkipWs(toks, (CHOOSE x \in ds : \A y \in ds : x <= y) + 1))))

\* re.search(r"CHECK\s*\([^)]*IN\s*\(([^)]+)\)", constraints_str): the IN
\* list of the first CHECK (...) that has one, or None.
CheckEnum(toks) ==
    LET Opens(c) == SkipWs(toks, c + 1)
        InAt(c, j) ==
            /\ j > Opens(c) /\ j < Len(toks)
            /\ Upper(toks[j]) = "IN"
            /\ \A m \in (Opens(c) + 1)..j : toks[m] # ")"
            /\ SkipWs(toks, j + 1) <= Len(toks)
            /\ toks[SkipWs(toks, j + 1)] = "("
            /\ FirstClose(toks, SkipWs(toks, j + 1) + 1) > SkipWs(toks, j + 1) + 1
        Matches(c) ==
            /\ Upper(toks[c]) = "CHECK"
            /\ Opens(c) <= Len(toks)
            /\ toks[Opens(c)] = "("
            /\ \E j \in DOMAIN toks : InAt(c, j)
        cs == {c \in DOMAIN toks : Matches(c)}
    IN IF cs = {} THEN None
       ELSE LET c == CHOOSE x \in cs : \A y \in cs : x <= y
                j == CHOOSE x \in {y \in DOMAIN toks : InAt(c, y)} :
                        \A y \in {z \in DOMAIN toks : InAt(c, z)} : y <= x
                open == SkipWs(toks, j + 1)
            IN Some(EnumValues(Slice(toks, open + 1, FirstClose(toks, open + 1) - 1)))

\* Mutant: the type is one word, never two.
column_type_end_one_word(part, ty) == ty

\* The index of the last token of the type that starts at ty: the regex
\* takes a second word whenever a word follows the first.
column_type_end(part, ty) ==
    IF SkipWs(part, ty + 1) <= Len(part) /\ IsWord(part[SkipWs(part, ty + 1)])
    THEN SkipWs(part, ty + 1)
    ELSE ty

\* DDLParser._parse_column on a stripped part: the column dict, or None
\* when the pattern does not match.
_parse_column(part) ==
    IF Len(part) < 2 \/ ~IsWord(part[1]) \/ SkipWs(part, 2) > Len(part)
       \/ ~IsWord(part[SkipWs(part, 2)])
    THEN None
    ELSE
    LET name == part[1]
        ty == SkipWs(part, 2)
        type_end == column_type_end(part, ty)
        type_words == IF type_end = ty THEN <<LowerType(part[ty])>>
                      ELSE <<LowerType(part[ty]), LowerType(part[type_end])>>
        \* the two words map as one type only when one space apart
        sql_type == [words |-> type_words, spaced |-> type_end <= ty + 1]
        open == SkipWs(part, type_end + 1)
        close == FirstClose(part, open + 1)
        has_size == open <= Len(part) /\ part[open] = "(" /\ close > open + 1
        size_str == IF has_size THEN Slice(part, open + 1, close - 1) ELSE <<>>
        rest == IF has_size THEN Slice(part, close + 1, Len(part))
                ELSE Slice(part, type_end + 1, Len(part))
        constraints_str == ToLineEnd(rest)
        mapped == IF sql_type.spaced /\ HasKey(TYPE_MAPPING, type_words)
                  THEN Lookup(TYPE_MAPPING, type_words) ELSE "string"
        internal_type == IF "[]" \in Range(part) \/ (sql_type.spaced /\ type_words = <<"array">>)
                         THEN "array" ELSE mapped
        not_null == ContainsPair(constraints_str, "NOT", "NULL")
        is_primary_key == ContainsPair(constraints_str, "PRIMARY", "KEY")
        has_default == ContainsWord(constraints_str, "DEFAULT")
        size_first == SelectSeq(size_str, LAMBDA t : t # "NL")
        hints == SelectSeq(NAME_FORMAT_HINTS, LAMBDA h : NameContains(name, h.key))
        hint1 == IF hints = <<>> THEN None ELSE Some(hints[1].val)
        hint2 == IF internal_type = "string"
                    /\ (NameContains(name, "uuid") \/ NameContains(name, "guid"))
                 THEN Some("uuid") ELSE hint1
        hint3 == IF sql_type.spaced /\ type_words = <<"uuid">> THEN Some("uuid") ELSE hint2
        hint4 == IF internal_type = "string" /\ NameContains(name, "email")
                 THEN Some("email") ELSE hint3
    IN Some([name |-> name,
             type |-> internal_type,
             sql_type |-> sql_type,
             format |-> hint4,
             required |-> not_null \/ is_primary_key,
             nullable |-> ~not_null /\ ~is_primary_key,
             primary_key |-> is_primary_key,
             min_length |-> None,
             max_length |-> IF has_size /\ internal_type = "string" /\ size_first # <<>>
                               /\ (Len(size_first) = 1 \/ size_first[2] = ",")
                            THEN ToInt(size_first[1]) ELSE None,
             default |-> IF has_default THEN DefaultValue(constraints_str) ELSE None,
             enum |-> CheckEnum(constraints_str)])

\* DDLParser._parse_columns
_parse_columns(columns_str) ==
    LET parts == _split_columns(columns_str)
        stripped == [i \in DOMAIN parts |-> Strip(parts[i])]
        kept == SelectSeq(stripped, LAMBDA part :
                    part # <<>> /\ ~_is_constraint(part) /\ _parse_column(part) # None)
    IN [i \in DOMAIN kept |-> _parse_column(kept[i])[1]]

\* The match of start_pattern at token i: CREATE TABLE [IF NOT EXISTS]
\* [schema.]name (   - the schema, the name and the index after "(", or None.
CreateTableAt(content, i) ==
    LET Tok(k) == IF k <= Len(content) THEN content[k] ELSE "NL"
        t == SkipWs(content, i + 1)
        n0 == SkipWs(content, t + 1)
        n == IF Upper(Tok(n0)) = "IF" /\ Upper(Tok(SkipWs(content, n0 + 1))) = "NOT"
                /\ Upper(Tok(SkipWs(content, SkipWs(content, n0 + 1) + 1))) = "EXISTS"
                /\ IsWord(Tok(SkipWs(content, SkipWs(content, SkipWs(content, n0 + 1) + 1) + 1)))
             THEN SkipWs(content, SkipWs(content, SkipWs(content, n0 + 1) + 1) + 1)
             ELSE n0
        qualified == IsWord(Tok(n)) /\ Tok(n + 1) = "." /\ IsWord(Tok(n + 2))
        nameAt == IF qualified THEN n + 2 ELSE n
        open == SkipWs(content, nameAt + 1)
    IN IF Upper(Tok(i)) = "CREATE" /\ Upper(Tok(t)) = "TABLE"
          /\ IsWord(Tok(nameAt)) /\ Tok(open) = "("
       THEN Some([schema |-> IF qualified THEN Some(content[n]) ELSE None,
                  name |-> content[nameAt],
                  start_pos |-> open + 1])
       ELSE None

\* DDLParser._parse_all_tables: the matches of start_pattern in text order;
\* a later table of the same name replaces the earlier one in place.
_parse_all_tables(content) ==
    LET starts == SelectSeq([i \in 1..Len(content) |-> i],
                            LAMBDA i : CreateTableAt(content, i) # None)
        RECURSIVE tables(_)
        tables(k) ==
            IF k = 0 THEN <<>>
            ELSE LET m == CreateTableAt(content, starts[k])[1]
                     columns_str == _extract_balanced_parens(content, m.start_pos)
                 IN IF columns_str # None /\ columns_str[1] # <<>>
                    THEN DictSet(tables(k - 1), m.name,
                            [schema |-> m.schema,
                             columns |-> _parse_columns(columns_str[1]),
                             raw |-> Slice(content, starts[k],
                                           m.start_pos + Len(columns_str[1]))])
                    ELSE tables(k - 1)
    IN tables(Len(starts))

\* DDLParser(ddl_content)
DDLParser(content) ==
    [format |-> "ddl", ddl_content |-> content, _tables |-> _parse_all_tables(content)]

\* DDLParser.list_tables
list_tables(p) == [i \in DOMAIN p._tables |-> p._tables[i].key]

\* DDLParser.parse_table
parse_table(p, table_name) ==
    IF ~HasKey(p._tables, table_name)
    THEN NotFound("Table not found", table_name, list_tables(p))
    ELSE LET table_info == Lookup(p._tables, table_name)
             columns == table_info.columns
             keys == SelectSeq(columns, LAMBDA c : c.primary_key)
         IN Returned(SchemaDefinition(table_name, None,
                        [i \in DOMAIN columns |->
                           [FieldSchema(columns[i].name, columns[i].type) EXCEPT
                              !.format = columns[i].format,
                              !.required = columns[i].required,
                              !.nullable = columns[i].nullable,
                              !.enum = columns[i].enum,
                              !.min_length = columns[i].min_length,
                              !.max_length = columns[i].max_length,
                              !.default = columns[i].default]],
                        "ddl", Some(table_name),
                        <<[key |-> "schema", val |-> table_info.schema],
                          [key |-> "primary_keys",
                           val |-> [i \in DOMAIN keys |-> keys[i].name]]>>))

\* DDLParser.parse
ddl_parse(p) ==
    IF p._tables = <<>> THEN Raise("No tables found in DDL", <<>>, "")
    ELSE parse_table(p, p._tables[1].key)

(***************************************************************************)
(* protobuf.py: ProtobufParser                                             *)
(*                                                                         *)
(* The .proto text is a sequence of tokens, "NL" being a line break; a     *)
(* package name and a map<...> type are one token each.                    *)
(***************************************************************************)
ProtoPunctuation == {"{", "}", "=", ";", "[", "]", "//", "/*", "*/", "NL"}

MapTokens == {"map<string,int32>", "map<string,Node>", "map<string,Other>", "map<string>"}

\* The token matches \w+ entirely.
IsIdent(t) == t \notin ProtoPunctuation /\ t \notin MapTokens /\ ~HasDot(t)

\* The token matches \d+ entirely.
IsDigits(t) == t \in {"0", "1", "2", "3"}

SCALAR_TYPES ==
    << [key |-> "double", val |-> "float"], [key |-> "float", val |-> "float"],
       [key |-> "int32", val |-> "integer"], [key |-> "int64", val |-> "integer"],
       [key |-> "uint32", val |-> "integer"], [key |-> "uint64", val |-> "integer"],
       [key |-> "sint32", val |-> "integer"], [key |-> "sint64", val |-> "integer"],
       [key |-> "fixed32", val |-> "integer"], [key |-> "fixed64", val |-> "integer"],
       [key |-> "sfixed32", val |-> "integer"], [key |-> "sfixed64", val |-> "integer"],
       [key |-> "bool", val |-> "boolean"], [key |-> "string", val |-> "string"],
       [key |-> "bytes", val |-> "string"] >>

\* value_name.endswith("_UNSPECIFIED")
EndsWithUnspecified(t) == t \in {"STATUS_UNSPECIFIED", "_UNSPECIFIED"}

TokAt(toks, k) == IF k >= 1 /\ k <= Len(toks) THEN toks[k] ELSE "NL"

\* re.sub(r'//.*$', '', ..., MULTILINE) then re.sub(r'/\*.*?\*/', '', ..., DOTALL)
StripComments(toks) ==
    LET \* the token stands on a line after a "//"
        InLine(i) == \E j \in 1..i : toks[j] = "//" /\ \A k \in j..i : toks[k] # "NL"
        lines == SelectSeq([i \in DOMAIN toks |-> IF InLine(i) THEN "//" ELSE toks[i]],
                           LAMBDA t : t # "//")
        RECURSIVE block(_, _)
        block(t, i) ==
            LET opens == {j \in i..Len(t) : t[j] = "/*" /\ \E k \in (j + 1)..Len(t) : t[k] = "*/"}
            IN IF opens = {} THEN SubSeq(t, i, Len(t))
               ELSE LET open == CHOOSE j \in opens : \A m \in opens : j <= m
                        close == CHOOSE k \in (open + 1)..Len(t) :
                                    t[k] = "*/" /\ \A m \in (open + 1)..(k - 1) : t[m] # "*/"
                    IN SubSeq(t, i, open - 1) \o block(t, close + 1)
    IN block(lines, 1)

\* ProtobufParser._parse_package (on the raw text)
_parse_package(content) ==
    LET At(i) == /\ content[i] = "package"
                 /\ TokAt(content, SkipWs(content, i + 1)) \notin ProtoPunctuation
                 /\ TokAt(content, SkipWs(content, i + 1)) \notin MapTokens
                 /\ TokAt(content, SkipWs(content, SkipWs(content, i + 1) + 1)) = ";"
        hits == {i \in DOMAIN content : At(i)}
    IN IF hits = {} THEN None
       ELSE Some(content[SkipWs(content, (CHOOSE i \in hits : \A j \in hits : i <= j) + 1)])

\* Mutant: every value of the body is kept.
EnumBodyValuesUnfiltered(body) ==
    LET IsValue(i) == /\ IsIdent(body[i])
                      /\ TokAt(body, SkipWs(body, i + 1)) = "="
                      /\ IsDigits(TokAt(body, SkipWs(body, SkipWs(body, i + 1) + 1)))
    IN SelectSeq([i \in DOMAIN body |-> IF IsValue(i) THEN body[i] ELSE "NL"],
                 LAMBDA t : t # "NL")

\* The enum values of an enum body: (\w+)\s*=\s*\d+ without *_UNSPECIFIED.
EnumBodyValues(body) ==
    LET IsValue(i) == /\ IsIdent(body[i])
                      /\ TokAt(body, SkipWs(body, i + 1)) = "="
                      /\ IsDigits(TokAt(body, SkipWs(body, SkipWs(body, i + 1) + 1)))
        names == SelectSeq([i \in DOMAIN body |-> IF IsValue(i) THEN body[i] ELSE "NL"],
                           LAMBDA t : t # "NL")
    IN SelectSeq(names, LAMBDA t : ~EndsWithUnspecified(t))

\* The index of the first "}" at or after i, or 0.
RECURSIVE FirstBrace(_, _)
FirstBrace(toks, i) ==
    IF i > Len(toks) THEN 0
    ELSE IF toks[i] = "}" THEN i
    ELSE FirstBrace(toks, i + 1)

\* ProtobufParser._parse_all_enums (on the raw text)
_parse_all_enums(content) ==
    LET RECURSIVE scan(_, _)
        scan(i, enums) ==
            IF i > Len(content) THEN enums
            ELSE LET n == SkipWs(content, i + 1)
                     open == SkipWs(content, n + 1)
                     close == FirstBrace(content, open + 1)
                 IN IF content[i] = "enum" /\ IsIdent(TokAt(content, n))
                       /\ TokAt(content, open) = "{" /\ close > open + 1
                    THEN scan(close + 1,
                              DictSet(enums, content[n],
                                      EnumBodyValues(SubSeq(content, open + 1, close - 1))))
                    ELSE scan(i + 1, enums)
    IN scan(1, <<>>)

\* The message declarations message\s+(\w+)\s*\{ of a text: name and the
\* index after the brace.
MessageStarts(content) ==
    LET At(i) == /\ content[i] = "message"
                 /\ IsIdent(TokAt(content, SkipWs(content, i + 1)))
                 /\ TokAt(content, SkipWs(content, SkipWs(content, i + 1) + 1)) = "{"
        starts == SelectSeq([i \in DOMAIN content |-> IF At(i) THEN i ELSE 0],
                            LAMBDA i : i # 0)
    IN [k \in DOMAIN starts |->
          [name |-> content[SkipWs(content, starts[k] + 1)],
           start_pos |-> SkipWs(content, SkipWs(content, starts[k] + 1) + 1) + 1]]

\* ProtobufParser._collect_message_names
_collect_message_names(content) ==
    { m.name : m \in Range(MessageStarts(StripComments(content))) }

\* The brace matching loop of _parse_all_messages: the body of the message
\* whose brace precedes start_pos.  When the text ends first, the loop
\* leaves pos at the end and the slice drops the last character (here: the
\* last token).
MessageBody(content, start_pos) ==
    LET RECURSIVE scan(_, _)
        scan(pos, depth) ==
            IF depth = 0 \/ pos > Len(content)
            THEN SubSeq(content, start_pos, pos - 2)
            ELSE scan(pos + 1,
                      IF content[pos] = "{" THEN depth + 1
                      ELSE IF content[pos] = "}" THEN depth - 1
                      ELSE depth)
    IN scan(start_pos, 1)

\* ProtobufParser._parse_field_type
_parse_field_type(type_str, is_repeated, enums, message_names) ==
    LET info(type, items_type, enum, ref) ==
            [type |-> type, items_type |-> items_type, enum |-> enum, ref |-> ref,
             format |-> None]
    IN IF type_str \in {"map<string,int32>", "map<string,Node>", "map<string,Other>"}
       THEN [info("object", None, None, None) EXCEPT !.format = Some("map")]
       ELSE IF HasKey(SCALAR_TYPES, type_str)
       THEN IF is_repeated THEN info("array", Some(Lookup(SCALAR_TYPES, type_str)), None, None)
            ELSE info(Lookup(SCALAR_TYPES, type_str), None, None, None)
       ELSE IF HasKey(enums, type_str)
       THEN info("string", None, Some(Lookup(enums, type_str)), None)
       ELSE IF type_str \in message_names
       THEN IF is_repeated THEN info("array", Some("object"), None, None)
            ELSE info("object", None, None, Some(type_str))
       ELSE IF is_repeated THEN info("array", Some("string"), None, None)
       ELSE info("string", None, None, None)

\* The match of field_pattern that starts at token i of the body:
\* [repeated] type name = number [ [options] ] ;   - or None.
FieldAt(body, i) ==
    LET Try(ty, rep) ==
            LET nm == SkipWs(body, ty + 1)
                eq == SkipWs(body, nm + 1)
                num == SkipWs(body, eq + 1)
                k == SkipWs(body, num + 1)
                Closes(r) == /\ r > k /\ TokAt(body, r) = "]"
                             /\ \A m \in k..r : body[m] # "NL"
                             /\ TokAt(body, SkipWs(body, r + 1)) = ";"
                rs == {r \in DOMAIN body : Closes(r)}
                shape == /\ (IsIdent(TokAt(body, ty)) \/ TokAt(body, ty) \in MapTokens)
                         /\ IsIdent(TokAt(body, nm))
                         /\ TokAt(body, eq) = "="
                         /\ IsDigits(TokAt(body, num))
                field(end) == Some([repeated |-> rep, type |-> body[ty], name |-> body[nm],
                                    end |-> end])
            IN IF shape /\ TokAt(body, k) = ";" THEN field(k)
               ELSE IF shape /\ TokAt(body, k) = "[" /\ rs # {}
               THEN field(SkipWs(body, (CHOOSE r \in rs : \A q \in rs : r <= q) + 1))
               ELSE None
    IN IF body[i] = "repeated" /\ Try(SkipWs(body, i + 1), TRUE) # None
       THEN Try(SkipWs(body, i + 1), TRUE)
       ELSE Try(i, FALSE)

\* ProtobufParser._parse_fields
_parse_fields(message_body, enums, message_names) ==
    LET RECURSIVE scan(_)
        scan(i) ==
            IF i > Len(message_body) THEN <<>>
            ELSE LET m == FieldAt(message_body, i)
                 IN IF m = None THEN scan(i + 1)
                    ELSE IF m[1].type \in {"message", "enum"} THEN scan(m[1].end + 1)
                    ELSE <<[name |-> m[1].name, repeated |-> m[1].repeated,
                            info |-> _parse_field_type(m[1].type, m[1].repeated,
                                                       enums, message_names)]>>
                         \o scan(m[1].end + 1)
    IN scan(1)

\* ProtobufParser._parse_all_messages
_parse_all_messages(content, enums, message_names) ==
    LET stripped == StripComments(content)
        starts == MessageStarts(stripped)
        RECURSIVE each(_, _)
        each(k, messages) ==
            IF k > Len(starts) THEN messages
            ELSE each(k + 1, DictSet(messages, starts[k].name,
                        _parse_fields(MessageBody(stripped, starts[k].start_pos),
                                      enums, message_names)))
    IN each(1, <<>>)

\* ProtobufParser(proto_content)
ProtobufParser(content) ==
    [format |-> "protobuf", proto_content |-> content,
     _package |-> _parse_package(content),
     _enums |-> _parse_all_enums(content),
     _message_names |-> _collect_message_names(content),
     _messages |-> _parse_all_messages(content, _parse_all_enums(content),
                                       _collect_message_names(content))]

\* ProtobufParser.list_messages
list_messages(p) == [i \in DOMAIN p._messages |-> p._messages[i].key]

\* ProtobufParser.parse_message (message references are followed without
\* any cycle check, as in the code)
RECURSIVE parse_message(_, _)
parse_message(p, message_name) ==
    IF ~HasKey(p._messages, message_name)
    THEN NotFound("Message not found", message_name, list_messages(p))
    ELSE LET proto_fields == Lookup(p._messages, message_name)
             nested(pf) == parse_message(p, pf.info.ref[1]).schema.fields
             field(pf) ==
                 IF pf.info.type = "array"
                 THEN [FieldSchema(pf.name, "array") EXCEPT
                         !.items = Some(FieldSchema("item", Get(pf.info.items_type, "string")))]
                 ELSE [FieldSchema(pf.name, pf.info.type) EXCEPT
                         !.enum = pf.info.enum,
                         !.properties =
                            IF pf.info.type = "object" /\ pf.info.ref # None
                               /\ HasKey(p._messages, pf.info.ref[1])
                            THEN Some(DictFromPairs([i \in DOMAIN nested(pf) |->
                                    [key |-> nested(pf)[i].name, val |-> nested(pf)[i]]]))
                            ELSE None]
         IN Returned(SchemaDefinition(message_name, None,
                        [i \in DOMAIN proto_fields |-> field(proto_fields[i])],
                        "protobuf",
                        Some(IF TruthyStr(p._package)
                             THEN QualifiedName(p._package[1], message_name)
                             ELSE message_name),
                        <<[key |-> "package", val |-> p._package],
                          [key |-> "enums", val |-> Keys(p._enums)]>>))

\* The messages on which one call of parse_message(message_name) calls
\* parse_message in turn, in call order: the `ref` of every field that is
\* not an array, has type object and names a registered message.
parse_message_calls(p, message_name) ==
    LET proto_fields == Lookup(p._messages, message_name)
        followed == SelectSeq(proto_fields,
                        LAMBDA pf : /\ pf.info.type # "array"
                                    /\ pf.info.type = "object"
                                    /\ pf.info.ref # None
                                    /\ HasKey(p._messages, pf.info.ref[1]))
    IN [i \in DOMAIN followed |-> followed[i].info.ref[1]]

\* ProtobufParser.parse
pb_parse(p) ==
    IF p._messages = <<>> THEN Raise("No messages found in proto file", <<>>, "")
    ELSE parse_message(p, p._messages[1].key)

(***************************************************************************)
(* parser.py: SchemaParser construction, list_entities and parse           *)
(*                                                                         *)
(* A file is its suffix, the family of document it holds and the document. *)
(***************************************************************************)
\* The parsed content as detection sees it.
ContentView(kind, keys, type) == [kind |-> kind, keys |-> keys, type |-> type]

Present(o, key) == IF o # None THEN {key} ELSE {}

\* What json.loads / yaml.safe_load make of the file's content.
ContentOf(file) ==
    LET doc == file.doc
    IN CASE file.family = "swagger" ->
              ContentView("object",
                  Present(doc.openapi, "openapi") \cup Present(doc.swagger, "swagger")
                  \cup Present(doc.components_schemas, "components")
                  \cup Present(doc.definitions, "definitions"), None)
         [] file.family = "jsonschema" ->
              ContentView("object",
                  Present(doc.node.type, "type") \cup Present(doc.node.properties, "properties")
                  \cup Present(doc.schema_version, "$schema") \cup Present(doc.title, "title")
                  \cup Present(doc.definitions, "definitions") \cup Present(doc.defs, "$defs"),
                  doc.node.type)
         [] file.family = "avro" ->
              IF doc.k = "dict"
              THEN ContentView("object",
                       Present(doc.type, "type") \cup Present(doc.name, "name")
                       \cup Present(doc.fields, "fields") \cup Present(doc.symbols, "symbols")
                       \cup Present(doc.items, "items"), doc.type)
              ELSE ContentView("other", {}, None)
         [] file.family = "canonical" ->
              IF doc.isDict
              THEN ContentView("object",
                       Present(doc.name, "name") \cup Present(doc.fields, "fields")
                       \cup Present(doc.description, "description"), None)
              ELSE ContentView("other", {}, None)
         [] OTHER -> ContentView("invalid", {}, None)

\* The canonical document as JsonSchemaParser reads it: of the keywords the
\* parser looks for, a canonical root carries `description` only.
AsJsonSchema(doc) ==
    [node |-> [JNode(None) EXCEPT !.description = GetOpt(doc.description)],
     title |-> None, definitions |-> None, defs |-> None,
     schema_version |-> None, id |-> None]

\* SchemaParser._create_parser
_create_parser(format, file) ==
    CASE format = "swagger" /\ file.family = "swagger" -> SwaggerParser(file.doc)
      [] format = "jsonschema" /\ file.family = "jsonschema" -> JsonSchemaParser(file.doc)
      [] format = "jsonschema" /\ file.family = "canonical" ->
            JsonSchemaParser(AsJsonSchema(file.doc))
      [] format = "avro" /\ file.family = "avro" -> AvroParser(file.doc)
      [] format = "ddl" /\ file.family = "ddl" -> DDLParser(file.doc)
      [] format = "protobuf" /\ file.family = "protobuf" -> ProtobufParser(file.doc)

\* SchemaParser.list_entities
list_entities(p) ==
    CASE p.format = "swagger" -> list_schemas(p)
      [] p.format = "jsonschema" ->
            IF list_definitions(p) # <<>> THEN list_definitions(p) ELSE <<"(root)">>
      [] p.format = "avro" -> list_records(p)
      [] p.format = "ddl" -> list_tables(p)
      [] p.format = "protobuf" -> list_messages(p)

\* SchemaParser.parse(entity); `if entity:` is false for None and for "".
parse(p, entity) ==
    CASE p.format = "swagger" ->
            IF TruthyStr(entity) THEN parse_schema(p, entity[1])
            ELSE IF list_schemas(p) # <<>> THEN parse_schema(p, list_schemas(p)[1])
            ELSE Raise("No schemas found in OpenAPI spec", <<>>, "")
      [] p.format = "jsonschema" ->
            IF TruthyStr(entity) /\ entity[1] # "(root)" THEN parse_definition(p, entity[1])
            ELSE js_parse(p)
      [] p.format = "avro" ->
            IF TruthyStr(entity) THEN parse_record(p, entity[1]) ELSE avro_parse(p)
      [] p.format = "ddl" ->
            IF TruthyStr(entity) THEN parse_table(p, entity[1]) ELSE ddl_parse(p)
      [] p.format = "protobuf" ->
            IF TruthyStr(entity) THEN parse_message(p, entity[1]) ELSE pb_parse(p)

\* Mutant: parsing a table consumes it from the registry.
parser_after_call_consuming(p, entity) ==
    IF p.format = "ddl" /\ TruthyStr(entity) /\ HasKey(p._tables, entity[1])
    THEN [p EXCEPT !._tables = SelectSeq(p._tables, LAMBDA e : e.key # entity[1])]
    ELSE p

\* The parser instance after list_entities() or parse(entity): neither
\* method assigns to self or writes into a registry.
parser_after_call(p, entity) == p

(***************************************************************************)
(* SpecProjection: a caller holds one SchemaDefinition and calls its       *)
(* conversion methods in any order while the wall clock advances.          *)
(***************************************************************************)
ProjMaxFields == 2

ProjMaxDepth == 1

MaxClock == 1

ProjNames == {"id", "age"}

\* Leaf FieldSchema values: defaults, set flags, empty values, zeros, full.
ProjLeaves(n) ==
    { FieldSchema(n, "string"),
      [FieldSchema(n, "string") EXCEPT !.format = Some("uuid"), !.required = TRUE,
                                       !.nullable = FALSE],
      [FieldSchema(n, "string") EXCEPT !.format = Some(""), !.enum = Some(<<>>),
                                       !.pattern = Some("")],
      [FieldSchema(n, "integer") EXCEPT !.minimum = Some(0), !.maximum = Some(0),
                                        !.min_length = Some(0), !.max_length = Some(0),
                                        !.default = Some(0)],
      [FieldSchema(n, "Integer") EXCEPT !.format = Some("UUID"), !.minimum = Some(1),
                                        !.maximum = Some(9), !.default = Some(7),
                                        !.enum = Some(<<"a", "b">>), !.pattern = Some("x"),
                                        !.min_length = Some(1), !.max_length = Some(5),
                                        !.example = Some(3), !.description = Some("d")] }

RECURSIVE ProjFields(_, _)
ProjFields(n, depth) ==
    IF depth = 0 THEN ProjLeaves(n)
    ELSE LET kids == ProjFields("item", depth - 1)
             inner == ProjFields("street", depth - 1)
         IN ProjLeaves(n)
            \cup { [FieldSchema(n, "array") EXCEPT !.items = it]
                     : it \in {None} \cup {Some(k) : k \in kids} }
            \cup { [FieldSchema(n, "object") EXCEPT !.properties = pr]
                     : pr \in {None, Some(<<>>)}
                          \cup {Some(<<[key |-> "street", val |-> k]>>) : k \in inner} }
            \cup { [FieldSchema(n, "string") EXCEPT !.items = Some(FieldSchema("item", "string")),
                                                    !.properties = Some(<<>>)] }

\* The schemas a run may hold: a first field of any shape, further fields
\* leaves (two fields may share a name), and one schema whose name needs a slug.
ProjSchemas ==
    { SchemaDefinition("users", None, fs, "canonical", None, <<>>)
        : fs \in {<<>>} \cup
                 { <<f>> \o rest :
                     f \in ProjFields("id", ProjMaxDepth) \cup ProjLeaves("age"),
                     rest \in SeqsUpTo(ProjLeaves("id"), ProjMaxFields - 1) } }
    \cup { SchemaDefinition("User Events", None, <<f>>, "ddl", Some("ns.UserEvents"), <<>>)
             : f \in ProjLeaves("id") }

Sig(m, dataset_type, count) == [m |-> m, dataset_type |-> dataset_type, count |-> count]

Remember(f, sig, doc) == IF sig \in DOMAIN f THEN f ELSE f @@ (sig :> doc)

InitProjection ==
    /\ source \in ProjSchemas
    /\ schema = source
    /\ parser = None
    /\ result = NoResult
    /\ first = EmptyDoc
    /\ now = 0
    /\ calls = <<>>

CallToGeneratorSchema ==
    LET sig == Sig("to_generator_schema", "", 0)
        doc == schema_to_generator_schema(schema)
    IN /\ result' = [op |-> "to_generator_schema", sig |-> sig, doc |-> doc]
       /\ first' = Remember(first, sig, doc)
       /\ UNCHANGED <<source, parser, schema, now, calls>>

CallToSimpleSchema ==
    LET sig == Sig("to_simple_schema", "", 0)
        doc == to_simple_schema(schema)
    IN /\ result' = [op |-> "to_simple_schema", sig |-> sig, doc |-> doc]
       /\ first' = Remember(first, sig, doc)
       /\ UNCHANGED <<source, parser, schema, now, calls>>

CallToProfileDict ==
    \E dataset_type \in {"api"}, count \in {100} :
        LET sig == Sig("to_profile_dict", dataset_type, count)
            doc == to_profile_dict(schema, dataset_type, count, now)
        IN /\ result' = [op |-> "to_profile_dict", sig |-> sig, doc |-> doc]
           /\ first' = Remember(first, sig, doc)
           /\ UNCHANGED <<source, parser, schema, now, calls>>

Tick ==
    /\ now < MaxClock
    /\ now' = now + 1
    /\ UNCHANGED <<source, parser, schema, result, first, calls>>

NextProjection ==
    \/ CallToGeneratorSchema
    \/ CallToSimpleSchema
    \/ CallToProfileDict
    \/ Tick

SpecProjection == InitProjection /\ [][NextProjection]_vars

(***************************************************************************)
(* Claims about the projections (SpecProjection)                           *)
(***************************************************************************)
GeneratorKeys ==
    {"type", "format", "required", "nullable", "enum", "min_length", "max_length",
     "pattern", "minimum", "maximum", "items", "properties", "default"}

\* The directive `doc` is the sparse projection of field f.  With
\* emptyCounts = TRUE an empty string, list or map counts as a value that
\* must be projected; with FALSE only a non-empty one is.
RECURSIVE GenDocMatches(_, _, _)
GenDocMatches(f, doc, emptyCounts) ==
    LET has(k) == k \in DOMAIN doc
        carriesStr(o) == IF emptyCounts THEN o # None ELSE o \notin {None, Some("")}
        carriesSeq(o) == IF emptyCounts THEN o # None ELSE o \notin {None, Some(<<>>)}
    IN /\ DOMAIN doc \subseteq GeneratorKeys
       /\ has("type") /\ doc["type"] = f.type
       /\ has("required") <=> f.required
       /\ has("required") => doc["required"] = TRUE
       /\ has("nullable") <=> ~f.nullable
       /\ has("nullable") => doc["nullable"] = FALSE
       /\ \A k \in {"min_length", "max_length", "minimum", "maximum", "default"} :
             /\ has(k) <=> f[k] # None
             /\ has(k) => doc[k] = f[k][1]
       /\ \A k \in {"format", "pattern"} :
             /\ has(k) <=> carriesStr(f[k])
             /\ has(k) => doc[k] = f[k][1]
       /\ has("enum") <=> carriesSeq(f.enum)
       /\ has("enum") => doc["enum"] = f.enum[1]
       /\ has("items") <=> f.items # None
       /\ has("items") => GenDocMatches(f.items[1], doc["items"], emptyCounts)
       /\ has("properties") <=> carriesSeq(f.properties)
       /\ has("properties") =>
             /\ Keys(doc["properties"]) = Keys(f.properties[1])
             /\ \A i \in DOMAIN f.properties[1] :
                   GenDocMatches(f.properties[1][i].val, doc["properties"][i].val,
                                 emptyCounts)

\* The last field of the schema that carries name k (a dict keeps the last).
LastNamed(sd, k) ==
    sd.fields[CHOOSE i \in DOMAIN sd.fields :
                 /\ sd.fields[i].name = k
                 /\ \A j \in DOMAIN sd.fields : j > i => sd.fields[j].name # k]

\* Section 3 of the specification: enum, format and pattern are non-empty when
\* present, items goes with arrays and properties with objects.
RECURSIVE InDataModel(_)
InDataModel(f) ==
    /\ f.enum # Some(<<>>) /\ f.format # Some("") /\ f.pattern # Some("")
    /\ (f.items # None) => f.type = "array" /\ InDataModel(f.items[1])
    /\ (f.properties # None) =>
          /\ f.type = "object"
          /\ \A i \in DOMAIN f.properties[1] : InDataModel(f.properties[1][i].val)

GenSchemaMatches(emptyCounts) ==
    result.op = "to_generator_schema" =>
        /\ Range(Keys(result.doc)) = {f.name : f \in Range(schema.fields)}
        /\ \A i \in DOMAIN result.doc :
              GenDocMatches(LastNamed(schema, result.doc[i].key), result.doc[i].val,
                            emptyCounts)

\* C8 (amended): to_generator_schema() yields, per field name, a sparse
\* document over the thirteen keys: type always; required iff required;
\* nullable iff not nullable; min_length, max_length, minimum, maximum and
\* default iff not None (0 counts); items iff an items child exists; format,
\* pattern, enum and properties iff the value is non-empty; children projected
\* recursively.
C8_SparseProjection == GenSchemaMatches(FALSE)

\* C8 witness: a projected field with a zero bound and another with an empty
\* properties map.
C8_Witness ==
    /\ result.op = "to_generator_schema"
    /\ \E i \in DOMAIN schema.fields : schema.fields[i].minimum = Some(0)
    /\ \E i \in DOMAIN schema.fields : schema.fields[i].properties = Some(<<>>)

\* C8 as claimed: every key other than type, required and nullable is present
\* iff the field carries a value for it (checked on fields of the section 3
\* data model, where an object's properties map may be empty).
C8_AsClaimed ==
    (\A f \in Range(schema.fields) : InDataModel(f)) => GenSchemaMatches(TRUE)

MaskStamp(op, doc) ==
    IF op = "to_profile_dict" THEN [doc EXCEPT !.metadata.generated_at = 0] ELSE doc

\* C9 (amended): no conversion changes the SchemaDefinition; to_generator_schema
\* and to_simple_schema return equal documents on every call, and two
\* to_profile_dict calls with equal arguments return documents that are equal
\* except for metadata.generated_at, which is the time of the call.
C9_ConversionsPure ==
    /\ schema = source
    /\ result.op # "none" =>
          MaskStamp(result.op, result.doc) = MaskStamp(result.op, first[result.sig])

\* C9 witness: a repeated to_profile_dict call made at a later time.
C9_Witness ==
    /\ result.op = "to_profile_dict"
    /\ first[result.sig].metadata.generated_at # result.doc.metadata.generated_at

\* C9 as claimed: two calls of the same method with equal arguments return
\* equal documents.
C9_AsClaimed ==
    /\ schema = source
    /\ result.op # "none" => result.doc = first[result.sig]

(***************************************************************************)
(* SpecCanonical: a canonical document is handed to CanonicalSchemaParser, *)
(* which validates it on construction and, when accepted, parses it.       *)
(***************************************************************************)
CanonMaxNodes == 3

\* A JSON object with the keys `name` and `type` (None: key absent).
RawField(name, type) ==
    [isDict |-> TRUE, name |-> name, type |-> type, format |-> None,
     description |-> None, required |-> None, nullable |-> None, enum |-> None,
     min_length |-> None, max_length |-> None, pattern |-> None,
     minimum |-> None, maximum |-> None,
     exclusive_minimum |-> None, exclusive_maximum |-> None,
     items |-> None, min_items |-> None, max_items |-> None, unique_items |-> None,
     properties |-> None, propsIsDict |-> TRUE, default |-> None, example |-> None]

CanonLeaves ==
    { RawField(Some("id"), Some("string")),
      [RawField(Some("age"), Some("integer")) EXCEPT
          !.format = Some("date-time"), !.description = Some("years"),
          !.required = Some(TRUE), !.nullable = Some(FALSE), !.enum = Some(<<1>>),
          !.min_length = Some(0), !.max_length = Some(5), !.pattern = Some(""),
          !.minimum = Some(0), !.maximum = Some(9),
          !.exclusive_minimum = Some(TRUE), !.exclusive_maximum = Some(TRUE),
          !.min_items = Some(0), !.max_items = Some(2), !.unique_items = Some(TRUE),
          !.default = Some(0), !.example = Some(1)],
      [RawField(Some("tags"), Some("array")) EXCEPT
          !.format = Some("uri"), !.required = Some(FALSE), !.nullable = Some(TRUE)],
      RawField(Some("id"), Some("xyz")),
      RawField(JNull, Some("string")),
      [RawField(Some("id"), Some("string")) EXCEPT !.format = Some("xx")],
      RawField(None, Some("xyz")),
      [RawField(Some("id"), None) EXCEPT !.format = Some("xx")],
      [RawField(None, None) EXCEPT !.isDict = FALSE],
      [RawField(Some("address"), Some("object")) EXCEPT
          !.properties = Some(<<>>), !.propsIsDict = FALSE] }

KeyAt(i) == <<"email", "zip", "geo", "tag", "ext">>[i]

\* Raw fields of at most n JSON objects, and lists of them of at most n in all.
RECURSIVE CanonTrees(_)
RECURSIVE CanonForests(_)
CanonTrees(n) ==
    IF n = 0 THEN {}
    ELSE CanonLeaves
         \cup { [RawField(Some("tags"), Some("array")) EXCEPT !.items = Some(t)]
                  : t \in CanonTrees(n - 1) }
         \cup { [RawField(Some("tags"), Some("array")) EXCEPT
                    !.format = Some("xx"), !.items = Some(t)]
                  : t \in CanonTrees(n - 1) }
         \cup { [RawField(Some("note"), Some("string")) EXCEPT !.items = Some(t)]
                  : t \in CanonTrees(n - 1) }
         \cup { [RawField(Some("address"), Some("object")) EXCEPT
                    !.format = JNull,
                    !.properties = Some([i \in DOMAIN f |-> [key |-> KeyAt(i), val |-> f[i]]])]
                  : f \in CanonForests(n - 1) }

CanonForests(n) ==
    {<<>>} \cup UNION { { <<t>> \o f : t \in CanonTrees(k), f \in CanonForests(n - k) }
                          : k \in 1..n }

RawDoc(name, fields) ==
    [isDict |-> TRUE, name |-> name, description |-> None,
     fields |-> fields, fieldsIsList |-> TRUE]

CanonDocs(n) ==
    { RawDoc(Some("users"), Some(f)) : f \in CanonForests(n) }
    \cup { [RawDoc(Some("users"), Some(<<RawField(Some("id"), Some("string"))>>))
               EXCEPT !.description = Some("people")],
           [RawDoc(None, None) EXCEPT !.isDict = FALSE],
           RawDoc(None, Some(<<RawField(Some("id"), Some("xyz"))>>)),
           RawDoc(JNull, Some(<<RawField(Some("id"), Some("string"))>>)),
           RawDoc(Some("users"),
                  Some(<<[RawField(Some("id"), Some("boolean")) EXCEPT !.required = JNull]>>)),
           RawDoc(Some("users"), None),
           [RawDoc(Some("users"), Some(<<>>)) EXCEPT !.fieldsIsList = FALSE] }

InitCanonical ==
    /\ source \in CanonDocs(CanonMaxNodes)
    /\ parser = None
    /\ schema = None
    /\ result = NoResult
    /\ first = EmptyDoc
    /\ now = 0
    /\ calls = <<>>

\* CanonicalSchemaParser(data): __init__ stores the data and validates it.
Construct ==
    /\ parser = None
    /\ LET r == _validate_structure(source)
       IN /\ result' = [op |-> "construct", out |-> r]
          /\ parser' = IF r.ok THEN Some(source) ELSE None
    /\ UNCHANGED <<source, schema, first, now, calls>>

\* CanonicalSchemaParser.parse() on a constructed parser.
CanonicalParse ==
    /\ parser # None
    /\ IF canonical_parse_raises(parser[1])
       THEN /\ result' = [op |-> "parse", out |-> Raise("ValidationError", <<>>, "")]
            /\ UNCHANGED schema
       ELSE /\ schema' = Some(canonical_parse(parser[1]))
            /\ result' = [op |-> "parse", out |-> Ok]
    /\ UNCHANGED <<source, parser, first, now, calls>>

NextCanonical == Construct \/ CanonicalParse

SpecCanonical == InitCanonical /\ [][NextCanonical]_vars

(***************************************************************************)
(* Claims about the canonical parser (SpecCanonical)                       *)
(***************************************************************************)
\* The aliases under which a format hint is compared.
AliasOf(fmt) ==
    CASE fmt = "date-time" -> "datetime"
      [] fmt = "uri" -> "url"
      [] OTHER -> fmt

\* The value a FieldSchema shows for a key of the raw field: the value when
\* the key is present, the data model's default when it is absent.
Shown(raw, default) == IF raw = None THEN default ELSE raw[1]

ShownOpt(raw) == IF Len(raw) = 1 THEN raw ELSE None

\* Every scalar attribute of the raw field is reproduced by the FieldSchema.
ScalarsReproduced(raw, f) ==
    /\ f.name = raw.name[1]
    /\ f.type = raw.type[1]
    /\ f.format = IF ShownOpt(raw.format) = None THEN None
                  ELSE Some(AliasOf(raw.format[1]))
    /\ f.description = ShownOpt(raw.description)
    /\ f.required = Shown(raw.required, FALSE)
    /\ f.nullable = Shown(raw.nullable, TRUE)
    /\ f.enum = ShownOpt(raw.enum)
    /\ f.min_length = ShownOpt(raw.min_length)
    /\ f.max_length = ShownOpt(raw.max_length)
    /\ f.pattern = ShownOpt(raw.pattern)
    /\ f.minimum = ShownOpt(raw.minimum)
    /\ f.maximum = ShownOpt(raw.maximum)
    /\ f.exclusive_minimum = Shown(raw.exclusive_minimum, FALSE)
    /\ f.exclusive_maximum = Shown(raw.exclusive_maximum, FALSE)
    /\ f.min_items = ShownOpt(raw.min_items)
    /\ f.max_items = ShownOpt(raw.max_items)
    /\ f.unique_items = Shown(raw.unique_items, FALSE)
    /\ f.default = ShownOpt(raw.default)
    /\ f.example = ShownOpt(raw.example)

\* The FieldSchema f reproduces the raw field; with byType, `items` counts
\* only on an array field and `properties` only on an object field.
RECURSIVE Reproduces(_, _, _)
Reproduces(raw, f, byType) ==
    LET hasItems == raw.items # None /\ (byType => raw.type = Some("array"))
        hasProps == raw.properties # None /\ (byType => raw.type = Some("object"))
    IN /\ ScalarsReproduced(raw, f)
       /\ IF hasItems
          THEN f.items # None /\ Reproduces(raw.items[1], f.items[1], byType)
          ELSE f.items = None
       /\ IF hasProps
          THEN /\ f.properties # None
               /\ Len(f.properties[1]) = Len(raw.properties[1])
               /\ \A i \in DOMAIN raw.properties[1] :
                     /\ f.properties[1][i].key = raw.properties[1][i].key
                     /\ Reproduces(raw.properties[1][i].val, f.properties[1][i].val, byType)
          ELSE f.properties = None

RoundTrip(byType) ==
    (parser # None /\ schema # None) =>
        /\ schema[1].name = source.name[1]
        /\ schema[1].source_format = "canonical"
        /\ Len(schema[1].fields) = Len(source.fields[1])
        /\ \A i \in DOMAIN source.fields[1] :
              Reproduces(source.fields[1][i], schema[1].fields[i], byType)

\* C6: for every accepted canonical document, parse() maps fields[i] to a
\* FieldSchema with the same name, type, alias-normalized format and every
\* other scalar attribute (defaults for absent keys), in the same order;
\* `items` is reproduced recursively on array fields and `properties` on
\* object fields, and is dropped on fields of any other type.
C6_RoundTrip == RoundTrip(TRUE)

\* An accepted document has been parsed whose object field nests a fully
\* attributed property with an aliased format, next to a field with format uri.
C6_Witness ==
    /\ parser # None /\ schema # None
    /\ \E i \in DOMAIN source.fields[1] :
          /\ source.fields[1][i].type = Some("object")
          /\ source.fields[1][i].properties # None
          /\ Len(source.fields[1][i].properties[1]) > 0
          /\ source.fields[1][i].properties[1][1].val.format = Some("date-time")
          /\ schema[1].fields[i].properties[1][1].val.format = Some("datetime")
          /\ schema[1].fields[i].properties[1][1].val.maximum = Some(9)
    /\ \E i \in DOMAIN source.fields[1] :
          /\ source.fields[1][i].format = Some("uri")
          /\ schema[1].fields[i].format = Some("url")

\* C6 as stated: items and properties are reproduced on every field that
\* carries them.
C6_AsClaimed == RoundTrip(FALSE)

\* Every defect of a raw field in document order (pre-order; a field's own
\* name, type and format before its children).
RECURSIVE Defects(_, _)
Defects(field, path) ==
    LET RECURSIVE props(_)
        props(i) ==
            IF i > Len(field.properties[1]) THEN <<>>
            ELSE Defects(field.properties[1][i].val,
                         Append(path, PropSeg(field.properties[1][i].key)))
                 \o props(i + 1)
        D(cond, err) == IF cond THEN <<[path |-> path, err |-> err]>> ELSE <<>>
    IN IF ~field.isDict THEN D(TRUE, "field must be an object")
       ELSE D(field.name = None, "field must have a 'name'")
            \o D(field.type = None, "field must have a 'type'")
            \o D(field.type # None /\ field.type[1] \notin VALID_TYPES, "invalid type")
            \o D(field.format # None /\ ~IsNull(field.format)
                   /\ field.format[1] \notin VALID_FORMATS, "invalid format")
            \o (IF field.type = Some("array") /\ field.items # None
                THEN Defects(field.items[1], Append(path, ItemsSeg))
                ELSE <<>>)
            \o (IF field.type = Some("object") /\ field.properties # None
                THEN IF field.propsIsDict THEN props(1)
                     ELSE <<[path |-> Append(path, PropsSeg), err |-> "must be an object"]>>
                ELSE <<>>)

RECURSIVE DocDefectsFrom(_, _)
DocDefectsFrom(fields, i) ==
    IF i > Len(fields) THEN <<>>
    ELSE Defects(fields[i], <<FieldsSeg(i - 1)>>) \o DocDefectsFrom(fields, i + 1)

DocDefects ==
    IF source.isDict /\ source.fields # None /\ source.fieldsIsList
    THEN DocDefectsFrom(source.fields[1], 1)
    ELSE <<>>

IsViolation(d) == d.err \in {"invalid type", "invalid format"}

Violations == SelectSeq(DocDefects, IsViolation)

Reports(d) ==
    /\ parser = None
    /\ ~result.out.ok
    /\ result.out.err = d.err
    /\ result.out.path = d.path

C17_NoLateRejection ==
    (parser # None /\ result.op = "parse") => (result.out.ok /\ schema # None)

\* The document {"name": "users", "fields": [{"name": null, "type":
\* "string"}]} was accepted by the constructor and parse() has raised.
C17_Witness ==
    /\ source = RawDoc(Some("users"), Some(<<RawField(JNull, Some("string"))>>))
    /\ parser = Some(source)
    /\ result.op = "parse"
    /\ ~result.out.ok
    /\ schema = None

(***************************************************************************)
(* SpecDetect: SchemaParser._detect_format applied to a path and a content *)
(***************************************************************************)
DetectSuffixes ==
    {".json", ".yaml", ".yml", ".avsc", ".sql", ".ddl", ".proto",
     ".JSON", ".Avsc", ".txt", ".xml", ""}

DetectKeys == {"openapi", "swagger", "type", "fields", "$schema", "properties"}

DetectContents ==
    { ContentView("object", ks, ty) :
        ks \in SUBSET DetectKeys, ty \in {None, Some("record"), Some("object")} }
    \cup { ContentView("other", {}, None), ContentView("invalid", {}, None) }

DetectFiles ==
    { [suffix |-> sx, content |-> c] :
        sx \in DetectSuffixes,
        c \in { c \in DetectContents : c.type # None => "type" \in c.keys } }

InitDetect ==
    /\ source \in DetectFiles
    /\ parser = None
    /\ schema = None
    /\ result = NoResult
    /\ first = EmptyDoc
    /\ now = 0
    /\ calls = <<>>

\* SchemaParser._detect_format(path, content)
DetectFormat ==
    /\ result = NoResult
    /\ result' = [op |-> "detect", out |-> _detect_format(source.suffix, source.content)]
    /\ UNCHANGED <<source, parser, schema, first, now, calls>>

NextDetect == DetectFormat

SpecDetect == InitDetect /\ [][NextDetect]_vars

(***************************************************************************)
(* Claims about format detection (SpecDetect)                              *)
(***************************************************************************)
\* The extension a path is classified by (compared without regard to case).
Extension == Lower(source.suffix)

DetectedAs(format) == result.out.ok /\ result.out.format = format

MaxCalls == 2

ObjectNode(properties, required) ==
    [JNode(Some("object")) EXCEPT !.properties = Some(properties), !.required = Some(required)]

RefNode(prefix, name) == [JNode(None) EXCEPT !.ref = Some(Ref(prefix, name))]

UserNode(prefix) ==
    ObjectNode(<<[key |-> "id", val |-> JNode(Some("string"))],
                 [key |-> "address", val |-> RefNode(prefix, "Address")]>>, <<"id">>)

AddressNode == ObjectNode(<<[key |-> "zip", val |-> JNode(Some("string"))]>>, <<>>)

SwaggerDoc(openapi, swagger, components_schemas, definitions) ==
    [openapi |-> openapi, swagger |-> swagger,
     components_schemas |-> components_schemas, definitions |-> definitions]

SwaggerDocs ==
    LET v3 == <<[key |-> "User", val |-> UserNode("#/components/schemas/")],
                [key |-> "Address", val |-> AddressNode]>>
        v2 == <<[key |-> "Address", val |-> AddressNode],
                [key |-> "User", val |-> UserNode("#/definitions/")]>>
    IN { SwaggerDoc(Some("3.0.0"), None, Some(v3), None),
         SwaggerDoc(None, Some("2.0"), None, Some(v2)),
         SwaggerDoc(Some("3.0.0"), None, None, Some(v2)),
         SwaggerDoc(Some("3.1.0"), None, Some(<<>>), None) }

JsonSchemaDoc(node, title, definitions, defs) ==
    [node |-> node, title |-> title, definitions |-> definitions, defs |-> defs,
     schema_version |-> Some("draft-07"), id |-> None]

JsonSchemaDocs ==
    LET address == <<[key |-> "Address", val |-> AddressNode]>>
        user == <<[key |-> "User", val |-> UserNode("#/$defs/")]>>
    IN { JsonSchemaDoc(UserNode("#/definitions/"), Some("User"), Some(address), None),
         JsonSchemaDoc(AddressNode, Some("Address"), None, None),
         JsonSchemaDoc(AddressNode, None, None, Some(user \o address)),
         JsonSchemaDoc(JNode(Some("string")), None, Some(address), Some(user)),
         JsonSchemaDoc(JNode(Some("object")), Some("(root)"), None, None) }

ARecord(name, namespace, fields) ==
    [ADict(Some("record")) EXCEPT !.name = Some(name), !.namespace = namespace,
                                  !.fields = Some(fields)]

AEnum(name, symbols) ==
    [ADict(Some("enum")) EXCEPT !.name = Some(name), !.symbols = Some(symbols)]

AArray(items) == [ADict(Some("array")) EXCEPT !.items = Some(items)]

AvroDocs ==
    LET status == AEnum("Status", <<"ACTIVE", "INACTIVE">>)
        address == ARecord("Address", None, <<AField(Some("zip"), Some(AStr("string")))>>)
        user == ARecord("User", Some("com.ex"),
                    <<AField(Some("id"), Some(AStr("string"))),
                      AField(Some("status"), Some(status)),
                      AField(Some("address"), Some(address)),
                      AField(Some("nick"), Some(AList(<<AStr("null"), AStr("string")>>)))>>)
        plain == ARecord("User", None, <<AField(Some("id"), Some(AStr("long")))>>)
        shadowed == ARecord("User", None, <<AField(Some("inner"), Some(plain))>>)
    IN { user, plain, shadowed, address,
         AArray(plain), AList(<<plain, address>>), status, AStr("string") }

Statement(name, columns) == <<"CREATE", "TABLE", name, "(">> \o columns \o <<")", ";", "NL">>

DDLDocs ==
    LET users == Statement("users",
                    <<"id", "INT", "PRIMARY", "KEY", ",", "NL",
                      "email", "VARCHAR", "(", "100", ")", "NOT", "NULL">>)
        orders == Statement("orders", <<"id", "BIGINT", ",", "users", "INT">>)
        again == Statement("users", <<"name", "TEXT">>)
        empty == Statement("Ghost", <<>>)
    IN { users \o orders, orders \o users, users \o again, empty \o orders,
         <<"SELECT", "1", ";">>, <<>> }

Message(name, body) == <<"message", name, "{">> \o body \o <<"}", "NL">>

ProtobufDocs ==
    LET package == <<"package", "com.ex", ";", "NL">>
        address == Message("Address", <<"string", "zip", "=", "1", ";">>)
        user == Message("User", <<"string", "id", "=", "1", ";",
                                  "Address", "address", "=", "2", ";">>)
        ghost == <<"//">> \o Message("Ghost", <<>>)
    IN { package \o user \o address, address \o user, ghost \o address,
         package, <<"message", "User", "{", "string", "id", "=", "1">> }

CanonicalDocs ==
    { RawDoc(Some("users"), Some(<<RawField(Some("id"), Some("string"))>>)),
      RawDoc(Some("User"), Some(<<RawField(Some("id"), Some("integer")),
                                  RawField(Some("email"), Some("string"))>>)) }

File(suffix, family, doc) == [suffix |-> suffix, family |-> family, doc |-> doc]

\* Files whose format the detection decides from the extension or the keys.
DispatchFiles ==
    { File(sx, "swagger", doc) : sx \in {".json", ".yaml"}, doc \in SwaggerDocs }
    \cup { File(sx, "jsonschema", doc) : sx \in {".json", ".yml"}, doc \in JsonSchemaDocs }
    \cup { File(".avsc", "avro", doc) : doc \in AvroDocs }
    \cup { File(".json", "avro", doc) : doc \in { doc \in AvroDocs : doc.type = Some("record") } }
    \cup { File(sx, "ddl", doc) : sx \in {".sql", ".ddl"}, doc \in DDLDocs }
    \cup { File(".proto", "protobuf", doc) : doc \in ProtobufDocs }
    \cup { File(".json", "canonical", doc) : doc \in CanonicalDocs }

\* Entity names a caller may ask for.
EntityNames ==
    {"User", "Address", "Status", "com.ex.User", "users", "orders", "Ghost", "(root)", ""}

EntityArgs == {None} \cup { Some(e) : e \in EntityNames }

InitDispatch ==
    /\ source \in DispatchFiles
    /\ parser = None
    /\ schema = None
    /\ result = NoResult
    /\ first = EmptyDoc
    /\ now = 0
    /\ calls = <<>>

\* SchemaParser.from_file(path): read, detect the format, create the parser.
FromFile ==
    /\ parser = None
    /\ result = NoResult
    /\ LET detected == _detect_format(source.suffix, ContentOf(source))
       IN /\ result' = [op |-> "from_file", sig |-> <<"from_file", None>>, out |-> detected]
          /\ parser' = IF detected.ok THEN Some(_create_parser(detected.format, source))
                       ELSE None
    /\ UNCHANGED <<source, schema, first, now, calls>>

Allowed(sig) == sig \in DOMAIN first \/ Cardinality(DOMAIN first) < MaxCalls

\* SchemaParser.list_entities()
ListEntities ==
    /\ parser # None
    /\ Allowed(<<"list_entities", None>>)
    /\ LET out == [ok |-> TRUE, names |-> list_entities(parser[1])]
       IN /\ result' = [op |-> "list_entities", sig |-> <<"list_entities", None>>, out |-> out]
          /\ first' = Remember(first, <<"list_entities", None>>, out)
    /\ parser' = Some(parser_after_call(parser[1], None))
    /\ UNCHANGED <<source, schema, now, calls>>

\* SchemaParser.parse(entity)
Parse ==
    /\ parser # None
    /\ \E entity \in EntityArgs :
         /\ Allowed(<<"parse", entity>>)
         /\ LET out == parse(parser[1], entity)
            IN /\ result' = [op |-> "parse", sig |-> <<"parse", entity>>, out |-> out]
               /\ first' = Remember(first, <<"parse", entity>>, out)
               /\ schema' = IF out.ok THEN Some(out.schema) ELSE schema
         /\ parser' = Some(parser_after_call(parser[1], entity))
    /\ UNCHANGED <<source, now, calls>>

NextDispatch == FromFile \/ ListEntities \/ Parse

SpecDispatch == InitDispatch /\ [][NextDispatch]_vars

(***************************************************************************)
(* Claims about SchemaParser (SpecDispatch)                                *)
(***************************************************************************)
\* The last call was parse() with no entity.
ParsedDefault == result.op = "parse" /\ result.sig[2] = None

\* The last call was parse(e) with a non-empty entity name e.
ParsedNamed == result.op = "parse" /\ TruthyStr(result.sig[2])

Listed(e) == e \in Range(list_entities(parser[1]))

NotFoundErrors ==
    {"Schema not found", "Definition not found", "Record not found",
     "Table not found", "Message not found"}

\* C1 (as stated): a canonical-format JSON file opened with auto-detection
\* and parsed with parse() gives the SchemaDefinition that
\* CanonicalSchemaParser.parse() produces for the document.
C1_CanonicalFileParsed ==
    (source.family = "canonical" /\ ParsedDefault)
        => result.out = Returned(canonical_parse(source.doc))

\* A canonical file has been opened and parsed, and the result is the
\* JSON Schema wrapper, not the document's definition.
C1_Witness ==
    /\ source.family = "canonical"
    /\ ParsedDefault
    /\ result.out.ok
    /\ result.out.schema.source_format = "jsonschema"
    /\ result.out.schema.name = "Schema"
    /\ Len(result.out.schema.fields) = 1
    /\ result.out.schema.fields[1].name = "value"

\* C2 (as stated): parse(e) returns the entity named e when e is listed by
\* list_entities(), and fails with a not-found error enumerating the
\* available entities for every other name (none, when only the JSON Schema
\* root sentinel is listed).
C2_NamedEntityOrNotFound ==
    ParsedNamed =>
        LET e == result.sig[2][1]
        IN IF Listed(e)
           THEN result.out.ok /\ (result.out.schema.name = e \/ e = "(root)")
           ELSE /\ ~result.out.ok
                /\ result.out.err \in NotFoundErrors
                /\ \/ result.out.available = list_entities(parser[1])
                   \/ /\ result.out.available = <<>>
                      /\ list_entities(parser[1]) = <<"(root)">>

\* An Avro enum name, which list_entities() does not list, has been parsed
\* successfully into a definition without fields.
C2_Witness ==
    /\ ParsedNamed
    /\ parser[1].format = "avro"
    /\ result.sig[2] = Some("Status")
    /\ ~Listed("Status")
    /\ result.out.ok
    /\ result.out.schema.fields = <<>>

\* The Avro root is a record whose simple name no nested type registers again.
RootIsListedFirst(p) ==
    /\ p.schema.k = "dict"
    /\ p.schema.type = Some("record")
    /\ list_entities(p) # <<>>
    /\ list_entities(p)[1] = Get(p.schema.name, "")
    /\ Lookup(p._named_types, list_entities(p)[1]) = p.schema

DDLMaxClauses == 2

ColumnNames == {"id", "email"}

ColumnTypes ==
    {<<"INT">>, <<"VARCHAR">>, <<"UUID">>, <<"DOUBLE", "PRECISION">>, <<"TEXT", "[]">>}

ColumnSizes == {<<>>, <<"(", "10", ")">>, <<"(", "10", ",", "2", ")">>}

Clauses ==
    {<<"NOT", "NULL">>, <<"PRIMARY", "KEY">>, <<"NULL">>, <<"UNIQUE">>, <<"DEFAULT", "0">>}

\* The inline constraint CHECK (col IN ('a','b','c')) of the column col.
CheckIn(col) ==
    <<"CHECK", "(", col, "IN", "(", "'a'", ",", "'b'", ",", "'c'", ")", ")">>

RECURSIVE Flatten(_)
Flatten(seqs) == IF seqs = <<>> THEN <<>> ELSE Head(seqs) \o Flatten(Tail(seqs))

Column(name, type, size, clauses) ==
    [name |-> name, type |-> type, size |-> size, clauses |-> clauses,
     text |-> Statement("t", <<name>> \o type \o size \o Flatten(clauses))]

InitDDL ==
    /\ source \in UNION { { Column(n, ty, sz, cs) :
                              ty \in ColumnTypes, sz \in ColumnSizes,
                              cs \in SeqsUpTo(Clauses \cup {CheckIn(n)}, DDLMaxClauses) } :
                            n \in ColumnNames }
    /\ parser = None
    /\ schema = None
    /\ result = NoResult
    /\ first = EmptyDoc
    /\ now = 0
    /\ calls = <<>>

\* DDLParser(ddl_content)
ConstructDDL ==
    /\ parser = None
    /\ parser' = Some(DDLParser(source.text))
    /\ result' = [op |-> "construct", out |-> Ok]
    /\ UNCHANGED <<source, schema, first, now, calls>>

\* DDLParser.parse_table("t")
ParseTable ==
    /\ parser # None
    /\ result.op = "construct"
    /\ LET out == parse_table(parser[1], "t")
       IN /\ result' = [op |-> "parse_table", out |-> out]
          /\ schema' = IF out.ok THEN Some(out.schema) ELSE schema
    /\ UNCHANGED <<source, parser, first, now, calls>>

NextDDL == ConstructDDL \/ ParseTable

SpecDDL == InitDDL /\ [][NextDDL]_vars

(***************************************************************************)
(* Claims about DDLParser (SpecDDL)                                        *)
(***************************************************************************)
HasClause(clause) == clause \in Range(source.clauses)

\* C10 (as stated): a column whose constraint text contains NOT NULL or
\* PRIMARY KEY gives a field with required = true and nullable = false, a
\* PRIMARY KEY column is listed in metadata.primary_keys, and a column with
\* neither gives required = false and nullable = true - for every type,
\* with or without a size.
C10_ConstraintsRespected ==
    result.op = "parse_table" =>
        /\ result.out.ok
        /\ Len(schema[1].fields) = 1
        /\ LET f == schema[1].fields[1]
               constrained == HasClause(<<"NOT", "NULL">>) \/ HasClause(<<"PRIMARY", "KEY">>)
           IN /\ f.required = constrained
              /\ f.nullable = ~constrained
              /\ HasClause(<<"PRIMARY", "KEY">>)
                    <=> source.name \in Range(Lookup(schema[1].metadata, "primary_keys"))

\* `id INT NOT NULL` has been parsed, and the field is optional and nullable.
C10_Witness ==
    /\ result.op = "parse_table"
    /\ source.name = "id"
    /\ source.type = <<"INT">>
    /\ source.size = <<>>
    /\ source.clauses = <<<<"NOT", "NULL">>>>
    /\ result.out.ok
    /\ schema[1].fields[1].name = "id"
    /\ ~schema[1].fields[1].required
    /\ schema[1].fields[1].nullable

HasCheck == HasClause(CheckIn(source.name))

\* C11 (as stated): a column definition carrying the inline constraint
\* CHECK (col IN ('a','b','c')) gives exactly one field, whose enum is the
\* list a, b, c of the unquoted literals in order - for every column type,
\* with or without a parenthesized size.
C11_CheckEnum ==
    (result.op = "parse_table" /\ HasCheck) =>
        /\ result.out.ok
        /\ Len(schema[1].fields) = 1
        /\ schema[1].fields[1].enum = Some(<< <<"a">>, <<"b">>, <<"c">> >>)

\* `id INT CHECK (id IN ('a','b','c'))` has been parsed: one field, without
\* an enum.
C11_Witness ==
    /\ result.op = "parse_table"
    /\ source.name = "id"
    /\ source.type = <<"INT">>
    /\ source.size = <<>>
    /\ source.clauses = <<CheckIn("id")>>
    /\ result.out.ok
    /\ Len(schema[1].fields) = 1
    /\ schema[1].fields[1].enum = None

\* With a size between the type and the CHECK, the enum is extracted.
C11_SizedWitness ==
    /\ result.op = "parse_table"
    /\ source.size = <<"(", "10", ")">>
    /\ source.clauses = <<CheckIn(source.name)>>
    /\ schema[1].fields[1].enum = Some(<< <<"a">>, <<"b">>, <<"c">> >>)

\* Every FieldSchema node of a definition: its fields, their `items` and
\* their `properties`, at any depth.
RECURSIVE FieldNodes(_)
FieldNodes(f) ==
    {f}
    \cup (IF f.items = None THEN {} ELSE FieldNodes(f.items[1]))
    \cup (IF f.properties = None THEN {}
          ELSE UNION { FieldNodes(f.properties[1][i].val) : i \in DOMAIN f.properties[1] })

SchemaNodes(sd) == UNION { FieldNodes(sd.fields[i]) : i \in DOMAIN sd.fields }

ClosedTypes == {"string", "integer", "float", "boolean", "array", "object", "null"}

\* C15 (as stated): every FieldSchema node of a SchemaDefinition returned by
\* a parser has its type in {string, integer, float, boolean, array, object,
\* null}.
C15_ClosedTypes ==
    schema # None => \A node \in SchemaNodes(schema[1]) : node.type \in ClosedTypes

\* `id UUID` has been parsed: the field's type is "uuid".
C15_Witness ==
    /\ result.op = "parse_table"
    /\ source.type = <<"UUID">>
    /\ source.clauses = <<>>
    /\ result.out.ok
    /\ schema[1].fields[1].type = "uuid"

\* C16 (as stated): in every FieldSchema node of a SchemaDefinition returned
\* by a parser, `items` is present if and only if the type is array.
C16_ItemsIffArray ==
    schema # None =>
        \A node \in SchemaNodes(schema[1]) : (node.items # None) <=> (node.type = "array")

\* `id TEXT[]` has been parsed: an array field without `items`.
C16_Witness ==
    /\ result.op = "parse_table"
    /\ source.type = <<"TEXT", "[]">>
    /\ source.size = <<>>
    /\ source.clauses = <<>>
    /\ result.out.ok
    /\ schema[1].fields[1].type = "array"
    /\ schema[1].fields[1].items = None

(***************************************************************************)
(* SpecDDLNested: a CREATE TABLE statement whose column list holds nested, *)
(* balanced parentheses - sizes, CHECK lists, parenthesized defaults -     *)
(* followed by other statements, is handed to DDLParser and parsed.        *)
(***************************************************************************)
DDLMaxColumns == 2

DDLMaxDepth == 2

NestedColumnNames == <<"id", "price", "email", "status">>

\* A parenthesized expression nested d deep, with a comma at every depth.
RECURSIVE Nested(_)
Nested(d) == IF d = 0 THEN <<"1">> ELSE <<"(">> \o Nested(d - 1) \o <<",", "2", ")">>

\* The column definitions of one name.
NestedColumns(name) ==
    { <<name, "INT">>,
      <<name, "DECIMAL", "(", "10", ",", "2", ")">>,
      <<name, "VARCHAR", "(", "10", ")">> \o CheckIn(name) }
    \cup { <<name, "INT", "DEFAULT">> \o Nested(d) : d \in 1..DDLMaxDepth }

\* The lists of 1..n column definitions, the k-th under the k-th name.
RECURSIVE ColumnLists(_)
ColumnLists(n) ==
    IF n = 0 THEN {}
    ELSE LET name == NestedColumnNames[((n - 1) % Len(NestedColumnNames)) + 1]
             shorter == IF n = 1 THEN {<<>>} ELSE {l \in ColumnLists(n - 1) : Len(l) = n - 1}
         IN ColumnLists(n - 1) \cup {Append(l, c) : l \in shorter, c \in NestedColumns(name)}

\* The parts joined by commas: the text of a column list.
RECURSIVE JoinColumns(_)
JoinColumns(parts) ==
    IF Len(parts) = 1 THEN parts[1]
    ELSE parts[1] \o <<",">> \o JoinColumns(Tail(parts))

\* What follows the statement in the file.
Followers ==
    { <<>>,
      <<"CREATE", "INDEX", "i", "ON", "t", "(", "id", ")", ";">>,
      Statement("u", <<"id", "INT">>) }

InitDDLNested ==
    /\ source \in { [parts |-> parts, follower |-> follower,
                     text |-> Statement("t", JoinColumns(parts)) \o follower] :
                      parts \in ColumnLists(DDLMaxColumns), follower \in Followers }
    /\ parser = None
    /\ schema = None
    /\ result = NoResult
    /\ first = EmptyDoc
    /\ now = 0
    /\ calls = <<>>

SpecDDLNested == InitDDLNested /\ [][NextDDL]_vars

(***************************************************************************)
(* Claims about the DDL scanner (SpecDDLNested)                            *)
(***************************************************************************)
\* C12: for a CREATE TABLE statement whose column list holds nested balanced
\* parentheses, the extracted column list ends exactly at the ")" matching
\* the header's "(" - the table's raw text is the statement up to that ")"
\* - and the splitter cuts only at the commas of depth 0: every column
\* definition is one part and one field, in order.
C12_BalancedScan ==
    /\ parser # None =>
          /\ HasKey(parser[1]._tables, "t")
          /\ LET t == Lookup(parser[1]._tables, "t")
                 columns_str == JoinColumns(source.parts)
             IN /\ t.raw = <<"CREATE", "TABLE", "t", "(">> \o columns_str \o <<")">>
                /\ _extract_balanced_parens(source.text, 5) = Some(columns_str)
                /\ _split_columns(columns_str) = source.parts
                /\ [i \in DOMAIN t.columns |-> t.columns[i].name]
                      = [i \in DOMAIN source.parts |-> source.parts[i][1]]
    /\ result.op = "parse_table" =>
          /\ result.out.ok
          /\ [i \in DOMAIN schema[1].fields |-> schema[1].fields[i].name]
                = [i \in DOMAIN source.parts |-> source.parts[i][1]]

\* `id DECIMAL(10,2), price INT DEFAULT ((1,2),2)` followed by a CREATE INDEX
\* statement has been parsed: two fields, the first a float.
C12_Witness ==
    /\ result.op = "parse_table"
    /\ source.parts = << <<"id", "DECIMAL", "(", "10", ",", "2", ")">>,
                         <<"price", "INT", "DEFAULT">> \o Nested(2) >>
    /\ source.follower # <<>>
    /\ source.follower[2] = "INDEX"
    /\ Len(schema[1].fields) = 2
    /\ schema[1].fields[1].name = "id"
    /\ schema[1].fields[1].type = "float"
    /\ schema[1].fields[2].name = "price"

(***************************************************************************)
(* SpecProtobuf: a .proto text - an optional package line, an optional     *)
(* enum, one message, with comments in each of them - is handed to         *)
(* ProtobufParser and a message is parsed.                                 *)
(***************************************************************************)
ProtoEnum(name, body) == <<"enum", name, "{">> \o body \o <<"}", "NL">>

ProtoPackages ==
    { <<>>,
      <<"package", "com.ex", ";", "NL">>,
      <<"//", "package", "shop", ";", "NL", "package", "com.ex", ";", "NL">>,
      <<"/*", "package", "shop", ";", "*/", "NL">> }

ProtoEnums ==
    { <<>>,
      ProtoEnum("Status", <<"STATUS_UNSPECIFIED", "=", "0", ";", "ACTIVE", "=", "1", ";">>),
      ProtoEnum("Status", <<"ACTIVE", "=", "1", ";", "STATUS_UNSPECIFIED", "=", "0", ";",
                            "INACTIVE", "=", "2", ";">>),
      ProtoEnum("Status", <<"ACTIVE", "=", "1", ";", "//", "}", "NL",
                            "INACTIVE", "=", "2", ";">>),
      ProtoEnum("Status", <<"ACTIVE", "=", "1", ";", "/*", "INACTIVE", "=", "2", ";", "*/">>),
      <<"//">> \o ProtoEnum("Status", <<"ACTIVE", "=", "1", ";">>) }

ProtoMessages ==
    { Message("User", <<"string", "id", "=", "1", ";", "Status", "status", "=", "2", ";">>),
      Message("User", <<"repeated", "Status", "tags", "=", "1", ";",
                        "//", "string", "ghost", "=", "2", ";", "NL">>),
      Message("User", <<"string", "id", "=", "1", ";", "//", "}", "NL",
                        "Status", "status", "=", "2", ";">>),
      <<"//">> \o Message("Ghost", <<>>)
          \o Message("User", <<"Status", "status", "=", "1", ";">>),
      Message("User", ProtoEnum("Status", <<"_UNSPECIFIED", "=", "0", ";", "ACTIVE", "=", "1", ";">>)
                          \o <<"Status", "status", "=", "1", ";">>),
      Message("User", <<"map<string,int32>", "counts", "=", "1", ";",
                        "repeated", "string", "names", "=", "2", ";",
                        "repeated", "User", "friends", "=", "3", ";",
                        "repeated", "Foo", "misc", "=", "0", ";">>),
      Message("User", <<"string", "id", "=", "1", ";", "NL">>
                          \o Message("Inner", <<"string", "zip", "=", "1", ";">>)
                          \o <<"Inner", "inner", "=", "2", ";">>) }

InitProtobuf ==
    /\ source \in { [package |-> pk, enum |-> en, message |-> ms, text |-> pk \o en \o ms] :
                      pk \in ProtoPackages, en \in ProtoEnums, ms \in ProtoMessages }
    /\ parser = None
    /\ schema = None
    /\ result = NoResult
    /\ first = EmptyDoc
    /\ now = 0
    /\ calls = <<>>

\* ProtobufParser(proto_content)
ConstructProtobuf ==
    /\ parser = None
    /\ parser' = Some(ProtobufParser(source.text))
    /\ result' = [op |-> "construct", out |-> Ok]
    /\ UNCHANGED <<source, schema, first, now, calls>>

\* ProtobufParser.parse_message(name)
ParseMessage ==
    /\ parser # None
    /\ \E name \in {"User", "Ghost"} :
         LET out == parse_message(parser[1], name)
         IN /\ result' = [op |-> "parse_message", name |-> name, out |-> out]
            /\ schema' = IF out.ok THEN Some(out.schema) ELSE schema
    /\ UNCHANGED <<source, parser, first, now, calls>>

NextProtobuf == ConstructProtobuf \/ ParseMessage

SpecProtobuf == InitProtobuf /\ [][NextProtobuf]_vars

(***************************************************************************)
(* Claims about ProtobufParser (SpecProtobuf)                              *)
(***************************************************************************)
\* C13: no entry of the parser's enum registry and no field of a parsed
\* message holds an enum value whose name ends in _UNSPECIFIED.
C13_NoUnspecified ==
    /\ parser # None =>
          \A i \in DOMAIN parser[1]._enums :
             \A v \in Range(parser[1]._enums[i].val) : ~EndsWithUnspecified(v)
    /\ (result.op = "parse_message" /\ result.out.ok) =>
          \A i \in DOMAIN result.out.schema.fields :
             \A v \in Range(GetSeq(result.out.schema.fields[i].enum)) :
                ~EndsWithUnspecified(v)

\* A message whose field refers to an enum declared with STATUS_UNSPECIFIED
\* between two other values has been parsed: the field lists the two others.
C13_Witness ==
    /\ result.op = "parse_message"
    /\ result.out.ok
    /\ \E i \in DOMAIN source.enum : source.enum[i] = "STATUS_UNSPECIFIED"
    /\ \E i \in DOMAIN result.out.schema.fields :
          /\ result.out.schema.fields[i].name = "status"
          /\ result.out.schema.fields[i].enum = Some(<<"ACTIVE", "INACTIVE">>)

\* C20 (as stated): comments are stripped before every extraction pass, so
\* text inside a comment contributes no package name, enum, enum value,
\* message or field and a brace inside a comment ends no body: the parser
\* built from a text, and every message parsed with it, equal those built
\* from the text without its comments.
C20_CommentsStrippedFirst ==
    LET clean == ProtobufParser(StripComments(source.text))
    IN /\ parser # None =>
             /\ parser[1]._package = clean._package
             /\ parser[1]._enums = clean._enums
             /\ parser[1]._message_names = clean._message_names
             /\ parser[1]._messages = clean._messages
       /\ result.op = "parse_message" =>
             result.out = parse_message(clean, result.name)

\* The text `// package shop;` followed by `package com.ex;` has been
\* parsed: the message's source entity is shop.User.
C20_Witness ==
    /\ source.package = <<"//", "package", "shop", ";", "NL", "package", "com.ex", ";", "NL">>
    /\ source.enum = <<>>
    /\ parser # None
    /\ parser[1]._package = Some("shop")
    /\ result.op = "parse_message"
    /\ result.out.ok
    /\ result.out.schema.source_entity = Some("shop.User")

\* The names declared in source.message by a field whose type token is one
\* of `types`, respectively by a field that follows the word `repeated`.
DeclaredWithType(types) ==
    { source.message[i + 1] :
        i \in { j \in 1..(Len(source.message) - 1) : source.message[j] \in types } }

DeclaredRepeated ==
    { source.message[i + 2] :
        i \in { j \in 1..(Len(source.message) - 2) : source.message[j] = "repeated" } }

UserParsed == result.op = "parse_message" /\ result.name = "User" /\ result.out.ok

\* C21 (as stated): every field declared with a map<K,V> type yields, in the
\* SchemaDefinition returned by parse_message, a FieldSchema with type
\* object and format "map".
C21_MapFields ==
    UserParsed =>
        \A name \in DeclaredWithType({"map<string,int32>"}) :
           \E i \in DOMAIN result.out.schema.fields :
              /\ result.out.schema.fields[i].name = name
              /\ result.out.schema.fields[i].type = "object"
              /\ result.out.schema.fields[i].format = Some("map")

\* A message with the field `map<string,int32> counts = 1;` has been
\* parsed: the field is an object without format.
C21_Witness ==
    /\ UserParsed
    /\ "counts" \in DeclaredWithType({"map<string,int32>"})
    /\ result.out.schema.fields[1].name = "counts"
    /\ result.out.schema.fields[1].type = "object"
    /\ result.out.schema.fields[1].format = None

\* C22 (as stated): every field declared `repeated` yields type array with
\* an `items` child, whatever its element type; every other field yields a
\* type that is not array.
C22_RepeatedFields ==
    UserParsed =>
        \A i \in DOMAIN result.out.schema.fields :
           LET f == result.out.schema.fields[i]
           IN IF f.name \in DeclaredRepeated
              THEN f.type = "array" /\ f.items # None
              ELSE f.type # "array"

\* `repeated Status tags = 1;` has been parsed next to the enum Status: the
\* field is a string with the enum's values, not an array.
C22_Witness ==
    /\ UserParsed
    /\ source.enum = ProtoEnum("Status", <<"STATUS_UNSPECIFIED", "=", "0", ";",
                                           "ACTIVE", "=", "1", ";">>)
    /\ "tags" \in DeclaredRepeated
    /\ result.out.schema.fields[1].name = "tags"
    /\ result.out.schema.fields[1].type = "string"
    /\ result.out.schema.fields[1].enum = Some(<<"ACTIVE">>)
    /\ result.out.schema.fields[1].items = None

\* A message body without the message and enum declarations nested in it.
RECURSIVE OwnBody(_)
OwnBody(body) ==
    IF body = <<>> THEN <<>>
    ELSE IF /\ body[1] \in {"message", "enum"}
            /\ IsIdent(TokAt(body, SkipWs(body, 2)))
            /\ TokAt(body, SkipWs(body, SkipWs(body, 2) + 1)) = "{"
    THEN LET open == SkipWs(body, SkipWs(body, 2) + 1)
             nested == MessageBody(body, open + 1)
         IN OwnBody(SubSeq(body, open + Len(nested) + 2, Len(body)))
    ELSE <<body[1]>> \o OwnBody(Tail(body))

\* The fields declared directly in the body of message User of source.text.
OwnFields ==
    LET stripped == StripComments(source.text)
        starts == SelectSeq(MessageStarts(stripped), LAMBDA m : m.name = "User")
        body == MessageBody(stripped, starts[Len(starts)].start_pos)
    IN _parse_fields(OwnBody(body), parser[1]._enums, parser[1]._message_names)

\* C30 (as stated): the field list of a parsed message contains exactly the
\* fields declared directly in its own body, in declaration order; fields
\* declared inside a nested message do not appear among them.
C30_OwnFieldsOnly ==
    UserParsed =>
        [i \in DOMAIN result.out.schema.fields |-> result.out.schema.fields[i].name]
           = [i \in DOMAIN OwnFields |-> OwnFields[i].name]

\* The message User { string id = 1; message Inner { string zip = 1; }
\* Inner inner = 2; } has been parsed: its fields are id, zip, inner.
C30_Witness ==
    /\ UserParsed
    /\ [i \in DOMAIN OwnFields |-> OwnFields[i].name] = <<"id", "inner">>
    /\ [i \in DOMAIN result.out.schema.fields |-> result.out.schema.fields[i].name]
          = <<"id", "zip", "inner">>

(***************************************************************************)
(* SpecAvro: an Avro record with an enum-typed field and a field whose     *)
(* type is a union is handed to AvroParser and the root is parsed.         *)
(***************************************************************************)
AvroMaxUnion == 2

\* The members a union is drawn from: primitives, a reference to the named
\* enum, an inline enum, an array and a logical type.
UnionMembers ==
    { AStr("null"), AStr("string"), AStr("long"), AStr("Status"),
      AEnum("Color", <<"RED", "GREEN">>), AArray(AStr("int")),
      [ADict(Some("string")) EXCEPT !.logicalType = Some("uuid")] }

UnionRecord(union) ==
    ARecord("User", None,
            <<AField(Some("status"), Some(AEnum("Status", <<"ACTIVE", "INACTIVE">>))),
              AField(Some("nick"), Some(AList(union)))>>)

InitAvro ==
    /\ source \in { [union |-> union, doc |-> UnionRecord(union)] :
                      union \in SeqsUpTo(UnionMembers, AvroMaxUnion) }
    /\ parser = None
    /\ schema = None
    /\ result = NoResult
    /\ first = EmptyDoc
    /\ now = 0
    /\ calls = <<>>

\* AvroParser(schema)
ConstructAvro ==
    /\ parser = None
    /\ parser' = Some(AvroParser(source.doc))
    /\ result' = [op |-> "construct", out |-> Ok]
    /\ UNCHANGED <<source, schema, first, now, calls>>

\* AvroParser.parse()
ParseAvro ==
    /\ parser # None
    /\ result.op = "construct"
    /\ LET out == avro_parse(parser[1])
       IN /\ result' = [op |-> "parse", out |-> out]
          /\ schema' = IF out.ok THEN Some(out.schema) ELSE schema
    /\ UNCHANGED <<source, parser, first, now, calls>>

NextAvro == ConstructAvro \/ ParseAvro

SpecAvro == InitAvro /\ [][NextAvro]_vars

(***************************************************************************)
(* Claims about AvroParser (SpecAvro)                                      *)
(***************************************************************************)
IsNullName(t) == t.k = "str" /\ t.s = "null"

HasNullMember == \E i \in DOMAIN source.union : IsNullName(source.union[i])

NonNullMembers == SelectSeq(source.union, LAMBDA t : ~IsNullName(t))

\* The field a record gives for the name `nick` and the type t alone.
FieldOfType(t) == avro_parse_field(AField(Some("nick"), Some(t)), parser[1]._named_types)

\* C14: a field whose type is a union with a member other than "null" has
\* the shape of the first such member, with nullable = true iff "null" is a
\* member, wherever it stands, and required its negation; a union without
\* such a member - the empty union included - gives type null and
\* nullable = true.
C14_UnionShape ==
    result.op = "parse" =>
        /\ result.out.ok
        /\ LET f == schema[1].fields[2]
           IN IF NonNullMembers # <<>>
              THEN f = [FieldOfType(NonNullMembers[1]) EXCEPT
                          !.nullable = HasNullMember, !.required = ~HasNullMember]
              ELSE f.type = "null" /\ f.nullable /\ ~f.required

\* The union ["long", "null"] has been parsed: an integer, nullable and not
\* required, "null" standing last.
C14_Witness ==
    /\ result.op = "parse"
    /\ source.union = <<AStr("long"), AStr("null")>>
    /\ schema[1].fields[2].name = "nick"
    /\ schema[1].fields[2].type = "integer"
    /\ schema[1].fields[2].nullable
    /\ ~schema[1].fields[2].required

\* C14 as stated: for every union, nullable = true iff "null" is a member.
C14_AsClaimed ==
    result.op = "parse" =>
        /\ schema[1].fields[2].nullable = HasNullMember
        /\ NonNullMembers # <<>> =>
              schema[1].fields[2].type = FieldOfType(NonNullMembers[1]).type

(***************************************************************************)
(* SpecRefs: a JSON Schema, Swagger 2 or OpenAPI 3 document whose property *)
(* `p` (or the `items` of its array property `p`, or the root schema) is a *)
(* `$ref` to definition A; A, B, ... are each only a `$ref` to the next    *)
(* definition and the last one of the chain is the target.  hops is the    *)
(* number of references between the referrer and the target (0: the target *)
(* stands inline).                                                         *)
(***************************************************************************)
RefMaxHops == 3

RefTargets ==
    { [JNode(Some("integer")) EXCEPT !.maximum = Some(9)],
      [JNode(Some("boolean")) EXCEPT !.description = Some("flag"), !.format = Some("bit")],
      [JNode(Some("array")) EXCEPT !.items = Some(JNode(Some("integer"))),
                                   !.maxItems = Some(2)] }

DefName(i) == <<"A", "B", "C", "D", "E", "F">>[i]

RefChain(prefix, hops, target) ==
    [i \in 1..hops |->
        [key |-> DefName(i),
         val |-> IF i = hops THEN target ELSE RefNode(prefix, DefName(i + 1))]]

Referring(prefix, hops, target) ==
    IF hops = 0 THEN target ELSE RefNode(prefix, "A")

RefHolder(position, referring) ==
    CASE position = "property" -> ObjectNode(<<[key |-> "p", val |-> referring]>>, <<>>)
      [] position = "items" ->
            ObjectNode(<<[key |-> "p",
                          val |-> [JNode(Some("array")) EXCEPT !.items = Some(referring)]]>>,
                       <<>>)
      [] position = "root" -> referring

RefDoc(family, position, hops, target) ==
    LET prefix == CASE family = "definitions" -> "#/definitions/"
                    [] family = "$defs" -> "#/$defs/"
                    [] family = "swagger2" -> "#/definitions/"
                    [] family = "openapi3" -> "#/components/schemas/"
        chain == RefChain(prefix, hops, target)
        holder == RefHolder(position, Referring(prefix, hops, target))
        registry == chain \o <<[key |-> "T", val |-> holder]>>
    IN CASE family = "definitions" -> JsonSchemaDoc(holder, Some("T"), Some(chain), None)
         [] family = "$defs" -> JsonSchemaDoc(holder, Some("T"), None, Some(chain))
         [] family = "swagger2" -> SwaggerDoc(None, Some("2.0"), None, Some(registry))
         [] family = "openapi3" -> SwaggerDoc(Some("3.0.0"), None, Some(registry), None)

RefSources ==
    { [family |-> fam, position |-> pos, hops |-> h, target |-> t,
       doc |-> RefDoc(fam, pos, h, t)] :
        fam \in {"definitions", "$defs", "swagger2", "openapi3"},
        pos \in {"property", "items"}, h \in 0..RefMaxHops, t \in RefTargets }
    \cup { [family |-> fam, position |-> "root", hops |-> h, target |-> t,
            doc |-> RefDoc(fam, "root", h, t)] :
             fam \in {"definitions", "$defs"}, h \in 0..RefMaxHops, t \in RefTargets }

InitRefs ==
    /\ source \in RefSources
    /\ parser = None
    /\ schema = None
    /\ result = NoResult
    /\ first = EmptyDoc
    /\ now = 0
    /\ calls = <<>>

\* JsonSchemaParser(doc) / SwaggerParser(doc)
ConstructRefs ==
    /\ parser = None
    /\ parser' = Some(IF source.family \in {"definitions", "$defs"}
                      THEN JsonSchemaParser(source.doc)
                      ELSE SwaggerParser(source.doc))
    /\ result' = [op |-> "construct", out |-> Ok]
    /\ UNCHANGED <<source, schema, first, now, calls>>

\* JsonSchemaParser.parse() / SwaggerParser.parse_schema("T")
ParseRefs ==
    /\ parser # None
    /\ LET out == IF parser[1].format = "jsonschema" THEN js_parse(parser[1])
                  ELSE parse_schema(parser[1], "T")
       IN /\ result' = [op |-> "parse", out |-> out]
          /\ schema' = IF out.ok THEN Some(out.schema) ELSE schema
    /\ UNCHANGED <<source, parser, first, now, calls>>

NextRefs == ConstructRefs \/ ParseRefs

SpecRefs == InitRefs /\ [][NextRefs]_vars

\* The FieldSchema built for the referrer.
Referrer ==
    IF source.position = "items" THEN schema[1].fields[1].items[1]
    ELSE schema[1].fields[1]

\* The referrer carries the type and constraints of the target.
TakesTarget ==
    /\ Referrer.type = source.target.type[1]
    /\ Referrer.maximum = source.target.maximum
    /\ Referrer.format = source.target.format
    /\ Referrer.description = source.target.description
    /\ Referrer.max_items = source.target.maxItems
    /\ (Referrer.items # None) = (source.target.items # None)

\* The referrer was built from a schema that is only a `$ref`: type string
\* and no constraint.
TakesNothing ==
    /\ Referrer.type = "string"
    /\ [Referrer EXCEPT !.name = "", !.required = FALSE, !.nullable = TRUE]
          = FieldSchema("", "string")

\* References followed from a referrer: a property and an array's `items`
\* are resolved by the caller and again by _parse_field, the root schema
\* by _parse_field only.
Followed == IF source.position = "root" THEN 1 ELSE 2

RecursionLimit == 6

RecWrap(position, t) ==
    CASE position = "plain" -> t
      [] position = "union" -> AList(<<AStr("null"), t>>)
      [] position = "array" -> AArray(t)
      [] position = "map" -> [ADict(Some("map")) EXCEPT !.values = Some(t)]

AvroCyclic(cycle, position) ==
    LET id == AField(Some("id"), Some(AStr("long")))
        back == ARecord("Other", None,
                    <<AField(Some("back"), Some(RecWrap(position, AStr("Node"))))>>)
        leaf == ARecord("Other", None, <<AField(Some("zip"), Some(AStr("string")))>>)
    IN CASE cycle = "self" ->
              ARecord("Node", None,
                  <<id, AField(Some("next"), Some(RecWrap(position, AStr("Node"))))>>)
         [] cycle = "mutual" ->
              ARecord("Node", None, <<id, AField(Some("peer"), Some(back))>>)
         [] cycle = "none" ->
              ARecord("Node", None,
                  <<AField(Some("other"), Some(leaf)),
                    AField(Some("next"), Some(RecWrap(position, AStr("Other"))))>>)

ProtoRef(position, target, name) ==
    CASE position = "plain" -> <<target, name, "=", "2", ";", "NL">>
      [] position = "array" -> <<"repeated", target, name, "=", "2", ";", "NL">>
      [] position = "map" ->
            <<(IF target = "Node" THEN "map<string,Node>" ELSE "map<string,Other>"),
              name, "=", "2", ";", "NL">>

ProtoCyclic(cycle, position) ==
    LET id == <<"string", "id", "=", "1", ";", "NL">>
    IN CASE cycle = "self" -> Message("Node", id \o ProtoRef(position, "Node", "next"))
         [] cycle = "mutual" ->
              Message("Node", id \o ProtoRef("plain", "Other", "peer"))
              \o Message("Other", id \o ProtoRef(position, "Node", "back"))
         [] cycle = "none" ->
              Message("Node", id \o ProtoRef(position, "Other", "next"))
              \o Message("Other", <<"string", "zip", "=", "1", ";", "NL">>)

RecursiveSources ==
    { [family |-> "avro", cycle |-> c, position |-> pos, input |-> AvroCyclic(c, pos)] :
        c \in {"self", "mutual", "none"}, pos \in {"plain", "union", "array", "map"} }
    \cup { [family |-> "protobuf", cycle |-> c, position |-> pos,
            input |-> ProtoCyclic(c, pos)] :
             c \in {"self", "mutual", "none"}, pos \in {"plain", "array", "map"} }

InitRecursion ==
    /\ source \in RecursiveSources
    /\ parser = None
    /\ schema = None
    /\ result = NoResult
    /\ first = EmptyDoc
    /\ now = 0
    /\ calls = <<>>

\* AvroParser(doc) / ProtobufParser(doc)
ConstructRecursive ==
    /\ parser = None
    /\ parser' = Some(IF source.family = "avro" THEN AvroParser(source.input)
                      ELSE ProtobufParser(source.input))
    /\ result' = [op |-> "construct", out |-> Ok]
    /\ UNCHANGED <<source, schema, first, now, calls>>

Frame(node) == [node |-> node, next |-> 1]

\* The calls the frame's function makes, in order.
Callees(frame) ==
    IF parser[1].format = "avro"
    THEN _parse_type_calls(frame.node, parser[1]._named_types)
    ELSE parse_message_calls(parser[1], frame.node)

Top == calls[Len(calls)]

\* AvroParser.parse() / ProtobufParser.parse_message("Node") is entered.
EnterParse ==
    /\ parser # None
    /\ calls = <<>>
    /\ calls' = <<Frame(IF parser[1].format = "avro" THEN parser[1].schema ELSE "Node")>>
    /\ UNCHANGED <<source, parser, schema, result, first, now>>

\* The innermost call makes its next call.
CallStep ==
    /\ calls # <<>>
    /\ Top.next <= Len(Callees(Top))
    /\ Len(calls) < RecursionLimit
    /\ calls' = Append(calls, Frame(Callees(Top)[Top.next]))
    /\ UNCHANGED <<source, parser, schema, result, first, now>>

\* The innermost call has made all its calls and returns; the outermost
\* one returns the SchemaDefinition.
ReturnStep ==
    /\ calls # <<>>
    /\ Top.next > Len(Callees(Top))
    /\ IF Len(calls) = 1
       THEN LET out == IF parser[1].format = "avro" THEN avro_parse(parser[1])
                       ELSE parse_message(parser[1], "Node")
            IN /\ calls' = <<>>
               /\ result' = [op |-> "parse", out |-> out]
               /\ schema' = Some(out.schema)
       ELSE /\ calls' = [SubSeq(calls, 1, Len(calls) - 1) EXCEPT
                            ![Len(calls) - 1].next = @ + 1]
            /\ UNCHANGED <<result, schema>>
    /\ UNCHANGED <<source, parser, first, now>>

\* The innermost call makes a call at the recursion limit: RecursionError
\* unwinds the whole stack and leaves parse().
RaiseRecursionError ==
    /\ calls # <<>>
    /\ Top.next <= Len(Callees(Top))
    /\ Len(calls) = RecursionLimit
    /\ calls' = <<>>
    /\ result' = [op |-> "parse", out |-> Raise("RecursionError", <<>>, "")]
    /\ UNCHANGED <<source, parser, schema, first, now>>

NextRecursion ==
    ConstructRecursive \/ EnterParse \/ CallStep \/ ReturnStep \/ RaiseRecursionError

SpecRecursion == InitRecursion /\ [][NextRecursion]_vars

\* The definition reaches itself through calls the parser follows: any
\* reference in Avro, a plain message-typed field in Protobuf.
Recurses ==
    /\ source.cycle # "none"
    /\ source.family = "avro" \/ source.position = "plain"

\* The field that carries the reference back to Node.
BackField ==
    IF source.cycle = "mutual" THEN Lookup(schema[1].fields[2].properties[1], "back")
    ELSE schema[1].fields[2]

\* C19: parsing an Avro record that references itself, directly or through
\* another record, recurses until the recursion limit and never returns a
\* SchemaDefinition, whatever carries the reference (a plain field, a union,
\* an array or a map); parsing a Protobuf message does so only when the
\* self or mutual reference stands in plain message-typed fields: a repeated
\* field or a map that refers back is not followed, and parse_message
\* returns a SchemaDefinition whose field is an array of object items or an
\* object without properties.
C19_Recursion ==
    /\ Recurses =>
          /\ schema = None
          /\ result.op = "parse" => result.out = Raise("RecursionError", <<>>, "")
    /\ (~Recurses /\ result.op = "parse") =>
          /\ result.out.ok
          /\ schema = Some(result.out.schema)
    /\ (source.family = "protobuf" /\ source.cycle # "none" /\ result.op = "parse") =>
          CASE source.position = "plain" -> ~result.out.ok
            [] source.position = "array" ->
                  /\ BackField.type = "array"
                  /\ BackField.items = Some(FieldSchema("item", "object"))
            [] source.position = "map" ->
                  /\ BackField.type = "object"
                  /\ BackField.properties = None

\* Parsing the Avro record Node whose field `next` is a map of Node has
\* filled the stack and raised RecursionError.
C19_Witness ==
    /\ source.family = "avro"
    /\ source.cycle = "self"
    /\ source.position = "map"
    /\ result.op = "parse"
    /\ result.out = Raise("RecursionError", <<>>, "")
    /\ schema = None

\* C19 as stated: a self or mutual reference makes the parse recurse
\* without bound and never return, whatever kind of field carries it.
C19_AsClaimed ==
    (source.cycle # "none" /\ result.op = "parse") => (~result.out.ok /\ schema = None)

(***************************************************************************)
(* SpecJsonSchema: a JSON Schema document with an object, scalar or array  *)
(* root and entries under `definitions` and `$defs` is handed to           *)
(* JsonSchemaParser; list_definitions, parse and parse_definition are      *)
(* called.  `source` is the document as the caller wrote it; the document  *)
(* object itself is the parser's `schema`.                                 *)
(***************************************************************************)
ZipNode == [JNode(Some("string")) EXCEPT !.maxLength = Some(5)]

TagsNode == [JNode(Some("array")) EXCEPT !.items = Some(JNode(Some("string")))]

JsonRoots == {ObjectNode(<<[key |-> "zip", val |-> ZipNode]>>, <<"zip">>), ZipNode, TagsNode}

JsonDefinitions ==
    { None, Some(<<>>),
      Some(<<[key |-> "Address", val |-> AddressNode]>>),
      Some(<<[key |-> "Zip", val |-> ZipNode], [key |-> "Tags", val |-> TagsNode]>>) }

JsonDefs ==
    { None, Some(<<>>),
      Some(<<[key |-> "Zip", val |-> [JNode(Some("integer")) EXCEPT !.maximum = Some(9)]]>>),
      Some(<<[key |-> "Tags", val |-> TagsNode],
             [key |-> "Address", val |-> [JNode(None) EXCEPT
                                            !.properties = AddressNode.properties]]>>) }

DefinitionNames == {"Address", "Zip", "Tags", "Ghost"}

InitJsonSchema ==
    /\ source \in { JsonSchemaDoc(node, Some("T"), definitions, defs) :
                       node \in JsonRoots, definitions \in JsonDefinitions, defs \in JsonDefs }
    /\ parser = None
    /\ schema = None
    /\ result = NoResult
    /\ first = EmptyDoc
    /\ now = 0
    /\ calls = <<>>

\* JsonSchemaParser(schema)
ConstructJsonSchema ==
    /\ parser = None
    /\ parser' = Some(JsonSchemaParser(source))
    /\ result' = [op |-> "construct", out |-> Ok]
    /\ UNCHANGED <<source, schema, first, now, calls>>

\* JsonSchemaParser.list_definitions()
ListDefinitions ==
    /\ parser # None
    /\ result' = [op |-> "list_definitions",
                  out |-> [ok |-> TRUE, names |-> list_definitions(parser[1])]]
    /\ UNCHANGED <<source, parser, schema, first, now, calls>>

\* JsonSchemaParser.parse()
ParseRoot ==
    /\ parser # None
    /\ LET out == js_parse(parser[1])
       IN /\ result' = [op |-> "parse", out |-> out]
          /\ schema' = Some(out.schema)
    /\ UNCHANGED <<source, parser, first, now, calls>>

\* JsonSchemaParser.parse_definition(name)
ParseDefinition ==
    /\ parser # None
    /\ \E name \in DefinitionNames :
         LET out == parse_definition(parser[1], name)
         IN /\ result' = [op |-> "parse_definition", name |-> name, out |-> out]
            /\ schema' = IF out.ok THEN Some(out.schema) ELSE schema
    /\ UNCHANGED <<source, parser, first, now, calls>>

NextJsonSchema == ConstructJsonSchema \/ ListDefinitions \/ ParseRoot \/ ParseDefinition

SpecJsonSchema == InitJsonSchema /\ [][NextJsonSchema]_vars

\* The fields parse() yields for a document whose root is the named entry.
AsRoot(name) ==
    LET entry == Lookup(parser[1]._definitions, name)
    IN js_parse([parser[1] EXCEPT !.schema.node = entry]).schema.fields

\* C23 (as stated): parse_definition(name) resolves the named entry the way
\* parse() resolves the root: one field per property for an entry that
\* declares type object or has `properties`, a single field `value` with
\* the entry's type and constraints for any other entry.
C23_DefinitionAsRoot ==
    (result.op = "parse_definition" /\ result.out.ok) =>
        result.out.schema.fields = AsRoot(result.name)

\* parse_definition("Zip") has returned for the scalar entry Zip (a string
\* of at most 5 characters): the definition has no field, where parse()
\* gives the field `value`.
C23_Witness ==
    /\ result.op = "parse_definition"
    /\ result.name = "Zip"
    /\ result.out.ok
    /\ Lookup(parser[1]._definitions, "Zip") = ZipNode
    /\ result.out.schema.fields = <<>>
    /\ Len(AsRoot("Zip")) = 1
    /\ AsRoot("Zip")[1].name = "value"
    /\ AsRoot("Zip")[1].max_length = Some(5)

\* C29 (as stated): constructing a JsonSchemaParser and calling
\* list_definitions, parse or parse_definition leaves the input document
\* unchanged, also when it has both `definitions` and `$defs`.
C29_InputUnchanged ==
    parser # None => parser[1].schema = source

\* A document with definitions {Address} and $defs {Zip} has been handed to
\* the parser: its `definitions` now holds Address and Zip.
C29_Witness ==
    /\ parser # None
    /\ Keys(GetSeq(source.definitions)) = <<"Address">>
    /\ Keys(GetSeq(source.defs)) = <<"Zip">>
    /\ Keys(GetSeq(parser[1].schema.definitions)) = <<"Address", "Zip">>
    /\ result.op = "list_definitions"

(***************************************************************************)
(* SpecDDLConstraints: a CREATE TABLE statement whose column list mixes    *)
(* column definitions with table-level constraint lines is handed to       *)
(* DDLParser and parsed.                                                   *)
(***************************************************************************)
DDLMaxParts == 2

ConstraintColumnNames == {"id", "key_id", "unique_code"}

ColumnParts ==
    UNION { { [kind |-> "column", name |-> n, toks |-> <<n, "INT">>],
              [kind |-> "column", name |-> n,
               toks |-> <<n, "VARCHAR", "(", "10", ")", "NOT", "NULL">>] } :
            n \in ConstraintColumnNames }

ConstraintLine(toks) == [kind |-> "constraint", name |-> "", toks |-> toks]

ConstraintParts ==
    { ConstraintLine(<<"PRIMARY", "KEY", "(", "id", ")">>),
      ConstraintLine(<<"FOREIGN", "KEY", "(", "id", ")", "REFERENCES", "u", "(", "id", ")">>),
      ConstraintLine(<<"UNIQUE", "(", "id", ")">>),
      ConstraintLine(<<"CHECK", "(", "id", "IN", "(", "'a'", ",", "'b'", ")", ")">>),
      ConstraintLine(<<"CONSTRAINT", "pk", "PRIMARY", "KEY", "(", "id", ")">>),
      ConstraintLine(<<"INDEX", "i", "(", "id", ")">>),
      ConstraintLine(<<"KEY", "k", "(", "id", ")">>) }

\* The parts, one per line, separated by commas.
RECURSIVE JoinParts(_)
JoinParts(parts) ==
    IF Len(parts) = 1 THEN parts[1].toks
    ELSE parts[1].toks \o <<",", "NL">> \o JoinParts(Tail(parts))

InitDDLConstraints ==
    /\ source \in { [parts |-> parts, text |-> Statement("t", JoinParts(parts))] :
                      parts \in SeqsUpTo(ColumnParts \cup ConstraintParts, DDLMaxParts) \ {<<>>} }
    /\ parser = None
    /\ schema = None
    /\ result = NoResult
    /\ first = EmptyDoc
    /\ now = 0
    /\ calls = <<>>

SpecDDLConstraints == InitDDLConstraints /\ [][NextDDL]_vars

\* The names of the column definitions of the list, in order.
DeclaredColumns ==
    LET columns == SelectSeq(source.parts, LAMBDA part : part.kind = "column")
    IN [i \in DOMAIN columns |-> columns[i].name]

FieldNames(sd) == [i \in DOMAIN sd.fields |-> sd.fields[i].name]

\* C24 (as stated): the parts of a column list that are table-level
\* constraint lines (PRIMARY KEY, FOREIGN KEY, UNIQUE, CHECK, CONSTRAINT,
\* INDEX, KEY) are discarded and nothing else is: every column definition
\* yields exactly one field, whatever the column's name is.
C24_ConstraintLinesOnly ==
    result.op = "parse_table" =>
        /\ result.out.ok
        /\ FieldNames(schema[1]) = DeclaredColumns

\* The list `id INT, key_id INT` has been parsed: the table has the single
\* field id.
C24_Witness ==
    /\ result.op = "parse_table"
    /\ Len(source.parts) = 2
    /\ source.parts[1].toks = <<"id", "INT">>
    /\ source.parts[2].toks = <<"key_id", "INT">>
    /\ result.out.ok
    /\ FieldNames(schema[1]) = <<"id">>

\* With columns named otherwise, exactly the constraint lines are dropped.
C24_OtherNames ==
    (result.op = "parse_table"
       /\ \A i \in DOMAIN source.parts : source.parts[i].name \in {"", "id"}) =>
        /\ result.out.ok
        /\ FieldNames(schema[1]) = DeclaredColumns

(***************************************************************************)
(* SpecAvroArrays: an Avro record with a field `home` and a field `tags`   *)
(* whose type is an array - plain or in a union with "null" - is handed to *)
(* AvroParser and the root is parsed.                                      *)
(***************************************************************************)
AddressRecord == ARecord("Address", None, <<AField(Some("zip"), Some(AStr("string")))>>)

\* The item types of the array: primitives, an inline record, references by
\* name, an enum, a fixed, an array, a logical type, a union and a map.
ItemTypes ==
    { AStr("string"), AStr("int"),
      ARecord("Geo", None, <<AField(Some("lat"), Some(AStr("double")))>>),
      AStr("Address"), AStr("Ghost"),
      AEnum("Color", <<"RED", "GREEN">>),
      [ADict(Some("fixed")) EXCEPT !.name = Some("Hash"), !.size = Some(16)],
      AArray(AStr("int")),
      [ADict(Some("string")) EXCEPT !.logicalType = Some("uuid")],
      AList(<<AStr("null"), AStr("string")>>),
      [ADict(Some("map")) EXCEPT !.values = Some(AStr("int"))] }

\* The types of `home`: the record Address, declared inline, or a string.
HomeTypes == {AddressRecord, AStr("string")}

ArrayRecord(home, item, nullable) ==
    ARecord("User", None,
            <<AField(Some("home"), Some(home)),
              AField(Some("tags"), Some(IF nullable THEN AList(<<AStr("null"), AArray(item)>>)
                                        ELSE AArray(item)))>>)

InitAvroArrays ==
    /\ source \in { [item |-> item, nullable |-> nullable,
                     doc |-> ArrayRecord(home, item, nullable)] :
                      home \in HomeTypes, item \in ItemTypes, nullable \in BOOLEAN }
    /\ parser = None
    /\ schema = None
    /\ result = NoResult
    /\ first = EmptyDoc
    /\ now = 0
    /\ calls = <<>>

SpecAvroArrays == InitAvroArrays /\ [][NextAvro]_vars

\* The resolved shape of the array's item type.
ItemShape == _parse_type(source.item, parser[1]._named_types)

\* C25 (as stated): a field of type array is an array field whose `items`
\* child carries the resolved shape of the item type: its type, format and
\* enum, the fields of a record item type (inline or referenced by name) as
\* `properties`, and min_length/max_length of a fixed item type.
C25_ItemsResolved ==
    result.op = "parse" =>
        /\ result.out.ok
        /\ LET f == schema[1].fields[2]
           IN /\ f.name = "tags"
              /\ f.type = "array"
              /\ f.items # None
              /\ f.items[1].type = ItemShape.type
              /\ f.items[1].format = ItemShape.format
              /\ f.items[1].enum = ItemShape.enum
              /\ f.items[1].properties = ItemShape.properties
              /\ f.items[1].min_length = ItemShape.min_length
              /\ f.items[1].max_length = ItemShape.max_length

\* An array of the record Address, referenced by name, has been parsed: the
\* items child is an object without properties, where the record resolves
\* to an object with the property zip.
C25_Witness ==
    /\ result.op = "parse"
    /\ source.item = AStr("Address")
    /\ HasKey(parser[1]._named_types, "Address")
    /\ result.out.ok
    /\ schema[1].fields[2].type = "array"
    /\ schema[1].fields[2].items # None
    /\ schema[1].fields[2].items[1].type = "object"
    /\ schema[1].fields[2].items[1].properties = None
    /\ ItemShape.properties # None
    /\ Keys(ItemShape.properties[1]) = <<"zip">>

\* The items child of every array carries the item type's type, format and
\* enum; only properties and lengths are lost.
C25_TypeFormatEnum ==
    result.op = "parse" =>
        LET f == schema[1].fields[2]
        IN /\ f.type = "array"
           /\ f.items # None
           /\ f.items[1].type = ItemShape.type
           /\ f.items[1].format = ItemShape.format
           /\ f.items[1].enum = ItemShape.enum
           /\ f.items[1].properties = None
           /\ f.items[1].min_length = None
           /\ f.items[1].max_length = None

(***************************************************************************)
(* SpecMatchers: one delimiter nesting structure - what follows the        *)
(* opening delimiter of the entity `t`, as a sequence of opening           *)
(* delimiters, closing delimiters and items - is written as a CREATE TABLE *)
(* statement or as a message declaration and handed to DDLParser or        *)
(* ProtobufParser; the entities found are listed.                          *)
(***************************************************************************)
MatcherMaxLen == 3

Shapes == SeqsUpTo({"open", "close", "item"}, MatcherMaxLen)

\* The structure written with the delimiters of one format.
Delimited(shape, open, close) ==
    [i \in DOMAIN shape |->
       IF shape[i] = "open" THEN open ELSE IF shape[i] = "close" THEN close ELSE "x"]

\* The structure read off a text of one format.
ShapeOf(toks, open, close) ==
    [i \in DOMAIN toks |->
       IF toks[i] = open THEN "open" ELSE IF toks[i] = close THEN "close" ELSE "item"]

DDLText(shape) == <<"CREATE", "TABLE", "t", "(">> \o Delimited(shape, "(", ")")

ProtoText(shape) == <<"message", "t", "{">> \o Delimited(shape, "{", "}")

InitMatchers ==
    /\ source \in { [family |-> family, shape |-> shape,
                     text |-> IF family = "ddl" THEN DDLText(shape) ELSE ProtoText(shape)] :
                      family \in {"ddl", "protobuf"}, shape \in Shapes }
    /\ parser = None
    /\ schema = None
    /\ result = NoResult
    /\ first = EmptyDoc
    /\ now = 0
    /\ calls = <<>>

\* DDLParser(ddl_content) / ProtobufParser(proto_content)
ConstructMatcher ==
    /\ parser = None
    /\ parser' = Some(IF source.family = "ddl" THEN DDLParser(source.text)
                      ELSE ProtobufParser(source.text))
    /\ result' = [op |-> "construct", out |-> Ok]
    /\ UNCHANGED <<source, schema, first, now, calls>>

\* DDLParser.list_tables() / ProtobufParser.list_messages()
ListMatched ==
    /\ parser # None
    /\ result.op = "construct"
    /\ result' = [op |-> "list",
                  out |-> [ok |-> TRUE,
                           names |-> IF source.family = "ddl" THEN list_tables(parser[1])
                                     ELSE list_messages(parser[1])]]
    /\ UNCHANGED <<source, parser, schema, first, now, calls>>

NextMatchers == ConstructMatcher \/ ListMatched

SpecMatchers == InitMatchers /\ [][NextMatchers]_vars

\* The depth counter after the first k elements of the structure, starting
\* from 1 after the opening delimiter.
RECURSIVE DepthAfter(_, _)
DepthAfter(shape, k) ==
    IF k = 0 THEN 1
    ELSE DepthAfter(shape, k - 1)
           + (IF shape[k] = "open" THEN 1 ELSE IF shape[k] = "close" THEN -1 ELSE 0)

\* The position of the closing delimiter that matches the opening one.
Closers(shape) ==
    {k \in DOMAIN shape : DepthAfter(shape, k) = 0 /\ \A j \in 1..(k - 1) : DepthAfter(shape, j) > 0}

Terminated(shape) == Closers(shape) # {}

\* The span the paren matcher gives for the structure (None: no match).
ParenSpan(shape) ==
    LET columns_str == _extract_balanced_parens(DDLText(shape), 5)
    IN IF columns_str = None THEN None ELSE Some(ShapeOf(columns_str[1], "(", ")"))

\* The span the brace matcher gives for the structure.
BraceSpan(shape) == Some(ShapeOf(MessageBody(ProtoText(shape), 4), "{", "}"))

\* C26 (as stated): on the same nesting structure the two depth-counter
\* scanners give the same outcome: for a terminated body the same span,
\* from just after the opening delimiter to just before its matching
\* closing delimiter, and for an unterminated body no entity in either
\* parser.
C26_Twins ==
    result.op = "list" =>
        IF Terminated(source.shape)
        THEN /\ ParenSpan(source.shape) = BraceSpan(source.shape)
             /\ \A k \in Closers(source.shape) :
                   BraceSpan(source.shape) = Some(SubSeq(source.shape, 1, k - 1))
        ELSE result.out.names = <<>>

\* `message t { x` has been handed to ProtobufParser: the body never closes
\* and the message t is listed.
C26_Witness ==
    /\ result.op = "list"
    /\ source.family = "protobuf"
    /\ source.shape = <<"item">>
    /\ ~Terminated(source.shape)
    /\ result.out.names = <<"t">>

\* For a terminated body the spans agree, and DDLParser has no table for an
\* unterminated one.
C26_SpansAgree ==
    result.op = "list" =>
        IF Terminated(source.shape)
        THEN /\ ParenSpan(source.shape) = BraceSpan(source.shape)
             /\ \A k \in Closers(source.shape) :
                   BraceSpan(source.shape) = Some(SubSeq(source.shape, 1, k - 1))
        ELSE /\ ParenSpan(source.shape) = None
             /\ source.family = "ddl" => result.out.names = <<>>

(***************************************************************************)
(* Claims about `properties` maps (SpecCanonical)                          *)
(***************************************************************************)
\* The entries (k, child) of the properties of a node with child.name # k.
Miskeyed(node) ==
    IF node.properties = None THEN {}
    ELSE { i \in DOMAIN node.properties[1] :
             node.properties[1][i].val.name # node.properties[1][i].key }

\* C28 (as stated): in every SchemaDefinition returned by a parser, every
\* `properties` map is keyed by its children's names: each entry (k, child)
\* of the properties of an object node has child.name = k.
C28_KeyedByName ==
    schema # None => \A node \in SchemaNodes(schema[1]) : Miskeyed(node) = {}

\* The canonical document with the object field `address` whose property
\* under the key email is named id has been parsed: the child of the key
\* email has the name id.
C28_Witness ==
    /\ result.op = "parse"
    /\ result.out.ok
    /\ Len(schema[1].fields) = 1
    /\ schema[1].fields[1].name = "address"
    /\ schema[1].fields[1].properties # None
    /\ Keys(schema[1].fields[1].properties[1]) = <<"email">>
    /\ schema[1].fields[1].properties[1][1].val.name = "id"

(***************************************************************************)
(* SpecPermissive: an entity `T` with the single column, field or property *)
(* `p` whose type token is in no lookup table (DDL, Avro, Protobuf) or     *)
(* whose `$ref` names a definition that is not in the registry (JSON       *)
(* Schema, Swagger 2, OpenAPI 3) is handed to its parser and parsed.       *)
(* `array` tells that the column carries the suffix [] or that the         *)
(* Protobuf field is repeated, `declared` is the `type` the referring      *)
(* property declares next to its `$ref` ("" when it declares none).        *)
(***************************************************************************)
UnknownTokens == {"Ghost", "geometry"}

PermissiveDDL ==
    { [family |-> "ddl", array |-> arr, declared |-> "",
       input |-> Statement("T", <<"p">> \o ty \o sz
                                  \o (IF arr THEN <<"[]">> ELSE <<>>) \o cl)] :
        ty \in {<<"GEOMETRY">>, <<"FOO", "BAR">>},
        sz \in {<<>>, <<"(", "10", ")">>},
        arr \in BOOLEAN,
        cl \in {<<>>, <<"NOT", "NULL">>} }

PermissiveAvro ==
    UNION { { [family |-> "avro", array |-> FALSE, declared |-> "",
               input |-> ARecord("T", None, <<AField(Some("p"), Some(t))>>)] :
                t \in { AStr(tok), ADict(Some(tok)),
                        AList(<<AStr("null"), AStr(tok)>>),
                        AList(<<AStr(tok), AStr("int")>>) } } :
            tok \in UnknownTokens }

PermissiveProtobuf ==
    { [family |-> "protobuf", array |-> rep, declared |-> "",
       input |-> Message("T", (IF rep THEN <<"repeated">> ELSE <<>>)
                                 \o <<tok, "p", "=", "1", ";", "NL">>) \o other] :
        tok \in UnknownTokens, rep \in BOOLEAN,
        other \in {<<>>, Message("Other", <<"string", "zip", "=", "1", ";", "NL">>)} }

\* The property p of T: a `$ref` to Ghost, with or without a `type` of its own.
GhostRef(prefix, declared) ==
    [JNode(IF declared = "" THEN None ELSE Some(declared)) EXCEPT
        !.ref = Some(Ref(prefix, "Ghost"))]

PermissiveRefDoc(family, declared, others) ==
    LET prefix == CASE family = "definitions" -> "#/definitions/"
                    [] family = "$defs" -> "#/$defs/"
                    [] family = "swagger2" -> "#/definitions/"
                    [] family = "openapi3" -> "#/components/schemas/"
        holder == ObjectNode(<<[key |-> "p", val |-> GhostRef(prefix, declared)]>>, <<>>)
        registry == others \o <<[key |-> "T", val |-> holder]>>
    IN CASE family = "definitions" -> JsonSchemaDoc(holder, Some("T"), Some(others), None)
         [] family = "$defs" -> JsonSchemaDoc(holder, Some("T"), None, Some(others))
         [] family = "swagger2" -> SwaggerDoc(None, Some("2.0"), None, Some(registry))
         [] family = "openapi3" -> SwaggerDoc(Some("3.0.0"), None, Some(registry), None)

PermissiveRefs ==
    { [family |-> fam, array |-> FALSE, declared |-> declared,
       input |-> PermissiveRefDoc(fam, declared, others)] :
        fam \in {"definitions", "$defs", "swagger2", "openapi3"},
        declared \in {"", "integer"},
        others \in {<<>>, <<[key |-> "Other", val |-> AddressNode]>>} }

InitPermissive ==
    /\ source \in PermissiveDDL \cup PermissiveAvro \cup PermissiveProtobuf \cup PermissiveRefs
    /\ parser = None
    /\ schema = None
    /\ result = NoResult
    /\ first = EmptyDoc
    /\ now = 0
    /\ calls = <<>>

\* DDLParser(text) / AvroParser(doc) / ProtobufParser(text) /
\* JsonSchemaParser(doc) / SwaggerParser(doc)
ConstructPermissive ==
    /\ parser = None
    /\ parser' = Some(CASE source.family = "ddl" -> DDLParser(source.input)
                        [] source.family = "avro" -> AvroParser(source.input)
                        [] source.family = "protobuf" -> ProtobufParser(source.input)
                        [] source.family \in {"definitions", "$defs"} ->
                              JsonSchemaParser(source.input)
                        [] OTHER -> SwaggerParser(source.input))
    /\ result' = [op |-> "construct", out |-> Ok]
    /\ UNCHANGED <<source, schema, first, now, calls>>

\* parse_table("T") / parse() / parse_message("T") / parse() / parse_schema("T")
ParsePermissive ==
    /\ parser # None
    /\ result.op = "construct"
    /\ LET out == CASE source.family = "ddl" -> parse_table(parser[1], "T")
                    [] source.family = "avro" -> avro_parse(parser[1])
                    [] source.family = "protobuf" -> parse_message(parser[1], "T")
                    [] source.family \in {"definitions", "$defs"} -> js_parse(parser[1])
                    [] OTHER -> parse_schema(parser[1], "T")
       IN /\ result' = [op |-> "parse", out |-> out]
          /\ schema' = IF out.ok THEN Some(out.schema) ELSE schema
    /\ UNCHANGED <<source, parser, first, now, calls>>

NextPermissive == ConstructPermissive \/ ParsePermissive

SpecPermissive == InitPermissive /\ [][NextPermissive]_vars

\* C27: a column, field or property whose type token is in no lookup table,
\* or whose `$ref` target is not in the registry, never makes construction
\* or parse raise; the entity is returned with the field p, whose type is
\* string - except that a repeated Protobuf field is an array of string, a
\* DDL column written with [] is an array (without items), and a referring
\* property that declares a `type` of its own keeps that type.
C27_Permissive ==
    /\ result.op \in {"construct", "parse"} => result.out.ok
    /\ result.op = "parse" =>
          /\ Len(schema[1].fields) = 1
          /\ LET f == schema[1].fields[1]
             IN /\ f.name = "p"
                /\ f.type = IF source.array THEN "array"
                            ELSE IF source.declared # "" THEN source.declared
                            ELSE "string"
                /\ (source.array /\ source.family = "protobuf") =>
                      (f.items # None /\ f.items[1].type = "string")
                /\ (source.array /\ source.family = "ddl") => f.items = None

\* The property p, a `$ref` to the missing definition Ghost, has been
\* parsed: a string.
C27_Witness ==
    /\ result.op = "parse"
    /\ source.family = "definitions"
    /\ source.declared = ""
    /\ ~HasKey(parser[1]._definitions, "Ghost")
    /\ result.out.ok
    /\ schema[1].fields[1].name = "p"
    /\ schema[1].fields[1].type = "string"

\* C27 as stated: the field has type string, array of string for a repeated
\* Protobuf field.
C27_AsClaimed ==
    result.op = "parse" =>
        /\ result.out.ok
        /\ schema[1].fields[1].type =
              IF source.array /\ source.family = "protobuf" THEN "array" ELSE "string"

====
